---- MODULE Spec2Model ----
(***************************************************************************)
(* Model of the XSEN orchestrator chat service: the /chat handler in its   *)
(* model-routed form (src/index.js), its rule-routed form                  *)
(* (src/unnamed/part_001) and the rule-routed form with session sweep and  *)
(* tool cache (src/unnamed/part_000), together with the trivia engine and  *)
(* the MCP tool-call client they share.                                    *)
(*                                                                         *)
(* JavaScript strings are modelled as sequences of one-character strings,  *)
(* so that trim / toLowerCase / regular-expression tests are computed.     *)
(***************************************************************************)
EXTENDS Integers, Sequences, FiniteSets, TLC

(***************************************************************************)
(* Strings                                                                 *)
(***************************************************************************)
UpperChars == <<"A","B","C","D","E","F","G","H","I","J","K","L","M","N","O","P","Q","R","S","T","U","V","W","X","Y","Z">>

LowerChars == <<"a","b","c","d","e","f","g","h","i","j","k","l","m","n","o","p","q","r","s","t","u","v","w","x","y","z">>

DigitChars == {"0","1","2","3","4","5","6","7","8","9"}

IsUpper(c) == \E i \in 1..26 : UpperChars[i] = c

\* String.prototype.toLowerCase on one character
LowerChar(c) == IF IsUpper(c) THEN LowerChars[CHOOSE i \in 1..26 : UpperChars[i] = c] ELSE c

\* String.prototype.toLowerCase
ToLower(s) == [i \in 1..Len(s) |-> LowerChar(s[i])]

\* the regular-expression class \s (space, tab, newline as they occur here)
IsSpace(c) == c \in {" ", "\t", "\n"}

\* the regular-expression class \w
IsWordChar(c) == \/ \E i \in 1..26 : UpperChars[i] = c \/ LowerChars[i] = c
                 \/ c \in DigitChars
                 \/ c = "_"

SetMin(S) == CHOOSE x \in S : \A y \in S : x <= y

SetMax(S) == CHOOSE x \in S : \A y \in S : x >= y

\* String.prototype.trim
Trim(s) ==
  LET keep == {i \in 1..Len(s) : ~IsSpace(s[i])}
  IN  IF keep = {} THEN <<>> ELSE SubSeq(s, SetMin(keep), SetMax(keep))

\* s.replace(/\s+/g, " ")
RECURSIVE CollapseWs(_)
CollapseWs(s) ==
  IF s = <<>> THEN <<>>
  ELSE IF IsSpace(Head(s))
       THEN IF Len(s) > 1 /\ IsSpace(s[2])
            THEN CollapseWs(Tail(s))
            ELSE <<" ">> \o CollapseWs(Tail(s))
       ELSE <<Head(s)>> \o CollapseWs(Tail(s))

\* String.prototype.includes
Includes(s, k) == \E i \in 1..(Len(s) - Len(k) + 1) : SubSeq(s, i, i + Len(k) - 1) = k

\* /\bk\b/ for a keyword k that starts and ends with a word character
WordAt(s, i, k) ==
  /\ i + Len(k) - 1 <= Len(s)
  /\ SubSeq(s, i, i + Len(k) - 1) = k
  /\ (i = 1 \/ ~IsWordChar(s[i - 1]))
  /\ (i + Len(k) - 1 = Len(s) \/ ~IsWordChar(s[i + Len(k)]))

HasWord(s, k) == \E i \in 1..Len(s) : WordAt(s, i, k)

\* the string used for a whole text; Undef stands for undefined / null
Undef == <<"\\undefined">>

(***************************************************************************)
(* Trivia engine (src/index.js buildMCQ, getTriviaQuestion)                *)
(***************************************************************************)
\* function sanitize(s): (s ?? "").toString().trim()
sanitize(s) == IF s = Undef THEN <<>> ELSE Trim(s)

\* function normalizeAnswer(s)
normalizeAnswer(s) == ToLower(CollapseWs(sanitize(s)))

\* all permutations of 1..n: the outcomes of one Fisher-Yates shuffle
Perms(n) == {p \in [1..n -> 1..n] : \A i, j \in 1..n : p[i] = p[j] => i = j}

\* function shuffle(arr), for the random outcome p
shuffle(arr, p) == [i \in 1..Len(arr) |-> arr[p[i]]]

\* Array.prototype.filter
FilterSeq(s, Keep(_)) ==
  LET idx == {i \in 1..Len(s) : Keep(s[i])}
  IN  [k \in 1..Cardinality(idx) |->
         s[CHOOSE i \in idx : Cardinality({j \in idx : j <= i}) = k]]

\* Array.prototype.findIndex (0-based, -1 when absent)
FindIndex(s, P(_)) ==
  IF \E i \in 1..Len(s) : P(s[i])
  THEN SetMin({i \in 1..Len(s) : P(s[i])}) - 1
  ELSE -1

\* the length tolerance of the plausible pool
LenTolerance == 18

\* the minimum length of a plausible distractor
MinPlausibleLen == 3

\* the number of distractors of a question
NumWrong == 3

\* the number of options of a question
NumOptions == 4

\* buildMCQ: allOtherAnswers
allOtherAnswers(q, bank) ==
  LET correctNorm == normalizeAnswer(sanitize(q.answer))
      answers == [i \in 1..Len(bank) |-> sanitize(bank[i].answer)]
      Keep(a) == a # <<>> /\ normalizeAnswer(a) # correctNorm
  IN  FilterSeq(answers, Keep)

AbsDiff(a, b) == IF a >= b THEN a - b ELSE b - a

\* buildMCQ: plausible
plausible(q, bank) ==
  LET correct == sanitize(q.answer)
      correctNorm == normalizeAnswer(correct)
      Keep(a) == /\ Len(a) >= MinPlausibleLen
                 /\ AbsDiff(Len(a), Len(correct)) <= LenTolerance
                 /\ normalizeAnswer(a) # correctNorm
  IN  FilterSeq(allOtherAnswers(q, bank), Keep)

\* buildMCQ: tryAddFrom(pool), on the pair <<wrong, used>>
RECURSIVE tryAddFrom(_, _, _)
tryAddFrom(pool, wrong, used) ==
  IF pool = <<>> THEN <<wrong, used>>
  ELSE LET n == normalizeAnswer(Head(pool))
           w2 == IF n \notin used THEN Append(wrong, Head(pool)) ELSE wrong
           u2 == used \cup {n}
       IN  IF Len(w2) >= NumWrong THEN <<w2, u2>>
           ELSE tryAddFrom(Tail(pool), w2, u2)

\* a faulty generator: the pool of all other answers is tried first
generatedWrongAny(q, bank, p1, p2) ==
  LET correctNorm == normalizeAnswer(sanitize(q.answer))
      pool1 == shuffle(plausible(q, bank), p1)
      pool2 == shuffle(allOtherAnswers(q, bank), p2)
      first == tryAddFrom(pool2, <<>>, {correctNorm})
  IN  IF Len(first[1]) < NumWrong THEN tryAddFrom(pool1, first[1], first[2])[1]
      ELSE first[1]

\* buildMCQ: the distractors generated for the shuffle outcomes p1, p2
generatedWrong(q, bank, p1, p2) ==
  LET correctNorm == normalizeAnswer(sanitize(q.answer))
      pool1 == shuffle(plausible(q, bank), p1)
      pool2 == shuffle(allOtherAnswers(q, bank), p2)
      first == tryAddFrom(pool1, <<>>, {correctNorm})
  IN  IF Len(first[1]) < NumWrong THEN tryAddFrom(pool2, first[1], first[2])[1]
      ELSE first[1]

\* does the record carry pre-authored wrong answers (Array.isArray && length >= 3)
hasWrongAnswers(q) == Len(q.wrongAnswers) >= NumWrong

\* buildMCQ: the distractors of the question
wrongOf(q, bank, p1, p2) ==
  IF hasWrongAnswers(q)
  THEN [i \in 1..NumWrong |-> sanitize(q.wrongAnswers[i])]
  ELSE generatedWrong(q, bank, p1, p2)

FirstN(s, n) == IF Len(s) <= n THEN s ELSE SubSeq(s, 1, n)

\* function buildMCQ(q), for the distractors wrong and the outcome p3 of the
\* shuffle of the options
buildMCQ(q, wrong, p3) ==
  LET correct == sanitize(q.answer)
      correctNorm == normalizeAnswer(correct)
      options == FirstN(shuffle(<<correct>> \o wrong, p3), NumOptions)
      IsCorrect(o) == normalizeAnswer(o) = correctNorm
      expl == sanitize(q.explanation)
  IN  [question |-> sanitize(q.question),
       options |-> options,
       correctIndex |-> FindIndex(options, IsCorrect),
       explanation |-> IF expl # <<>> THEN expl ELSE correct]

\* the distractors buildMCQ(q) can choose, over the outcomes of the shuffles
\* of the two pools
wrongOutcomes(q, bank) ==
  { wrongOf(q, bank, p1, p2) :
      p1 \in Perms(Len(plausible(q, bank))), p2 \in Perms(Len(allOtherAnswers(q, bank))) }

\* every question buildMCQ(q) can return, over all shuffle outcomes
buildMCQOutcomes(q, bank) ==
  UNION { { buildMCQ(q, wrong, p3) : p3 \in Perms(1 + Len(wrong)) } :
          wrong \in wrongOutcomes(q, bank) }

(***************************************************************************)
(* Intent helpers (src/unnamed/part_001) and the request body              *)
(***************************************************************************)
\* isTriviaRequest: the alternatives of the pattern
TriviaWords ==
  { <<"t","r","i","v","i","a">>,
    <<"q","u","i","z">>,
    <<"t","e","s","t"," ","m","e">>,
    <<"a","s","k"," ","m","e"," ","t","r","i","v","i","a">> }

\* isVideoRequest: the alternatives of the pattern (matched without word boundaries)
VideoWords ==
  { <<"v","i","d","e","o">>,
    <<"v","i","d","e","o","s">>,
    <<"h","i","g","h","l","i","g","h","t">>,
    <<"h","i","g","h","l","i","g","h","t","s">>,
    <<"c","l","i","p">>,
    <<"c","l","i","p","s">>,
    <<"r","e","p","l","a","y">>,
    <<"w","a","t","c","h">>,
    <<"v","o","d">> }

\* isESPNStatsRequest: the alternatives of the pattern
ESPNWords ==
  { <<"s","c","o","r","e">>,
    <<"s","c","o","r","e","s">>,
    <<"r","e","c","o","r","d">>,
    <<"s","t","a","n","d","i","n","g","s">>,
    <<"s","t","a","t","s">>,
    <<"s","t","a","t"," ","l","i","n","e">>,
    <<"y","a","r","d","s">>,
    <<"t","d","s">>,
    <<"t","o","u","c","h","d","o","w","n","s">>,
    <<"w","h","o"," ","w","o","n">>,
    <<"f","i","n","a","l">>,
    <<"r","a","n","k","i","n","g","s">>,
    <<"g","a","m","e">>,
    <<"g","a","m","e","s">>,
    <<"t","o","d","a","y">>,
    <<"t","h","i","s"," ","w","e","e","k">>,
    <<"l","a","s","t"," ","w","e","e","k">>,
    <<"s","c","h","e","d","u","l","e">>,
    <<"r","e","c","e","n","t">>,
    <<"l","a","t","e","s","t">> }

\* isCFBDHistoryRequest: the alternatives of the pattern that end in a word character
CFBDWords ==
  { <<"a","l","l","-","t","i","m","e">>,
    <<"a","l","l"," ","t","i","m","e">>,
    <<"h","i","s","t","o","r","i","c","a","l">>,
    <<"r","e","c","o","r","d"," ","i","n">>,
    <<"s","e","a","s","o","n">>,
    <<"s","i","n","c","e">>,
    <<"b","o","w","l">>,
    <<"c","h","a","m","p","i","o","n","s","h","i","p">>,
    <<"n","a","t","i","o","n","a","l"," ","t","i","t","l","e">>,
    <<"c","o","n","f","e","r","e","n","c","e"," ","t","i","t","l","e">>,
    <<"s","e","r","i","e","s">>,
    <<"h","e","a","d"," ","t","o"," ","h","e","a","d">>,
    <<"v","s">>,
    <<"c","o","a","c","h","e","s">>,
    <<"h","e","i","s","m","a","n">>,
    <<"r","e","c","r","u","i","t","i","n","g">>,
    <<"t","a","l","e","n","t">>,
    <<"m","a","t","c","h","u","p">> }

\* function isTriviaRequest(text)
isTriviaRequest(text) == \E k \in TriviaWords : HasWord(ToLower(text), k)

\* function isAnswerChoice(text): /^[abcd]$/i.test(text.trim())
isAnswerChoice(text) ==
  /\ Len(Trim(text)) = 1
  /\ LowerChar(Trim(text)[1]) \in {"a", "b", "c", "d"}

\* function isVideoRequest(text)
isVideoRequest(text) == \E k \in VideoWords : Includes(ToLower(text), k)

\* function isESPNStatsRequest(text)
isESPNStatsRequest(text) == \E k \in ESPNWords : HasWord(ToLower(text), k)

\* the alternative vs\.? with its dot: the closing \b then needs a word character
HasVsDot(s) ==
  \E i \in 1..Len(s) :
    /\ i + 3 <= Len(s)
    /\ SubSeq(s, i, i + 2) = <<"v","s",".">>
    /\ (i = 1 \/ ~IsWordChar(s[i - 1]))
    /\ IsWordChar(s[i + 3])

\* function isCFBDHistoryRequest(text)
isCFBDHistoryRequest(text) ==
  \/ Trim(ToLower(text)) = <<"h","i","s","t","o","r","y">>
  \/ \E k \in CFBDWords : HasWord(ToLower(text), k)
  \/ HasVsDot(ToLower(text))

\* JSON values of the request body: undefined, a string, or an object
\* with a text member
JUndef == [t |-> "undef", s |-> <<>>]

JStr(s) == [t |-> "str", s |-> s]

JObj(s) == [t |-> "obj", s |-> s]

\* JavaScript truthiness of a body value
Truthy(v) == v.t = "obj" \/ (v.t = "str" /\ v.s # <<>>)

\* body?.message?.text: the text member of an object, undefined on a string
MessageText(v) == IF v.t = "obj" /\ v.s # Undef THEN JStr(v.s) ELSE JUndef

\* Object.prototype.toString / String.prototype.toString
JToString(v) == IF v.t = "obj" THEN <<"[","o","b","j","e","c","t"," ","O","b","j","e","c","t","]">> ELSE v.s

\* a faulty getText: the text is not trimmed
getTextUntrimmed(body) ==
  LET v == IF Truthy(MessageText(body.message)) THEN MessageText(body.message)
           ELSE IF Truthy(body.message) THEN body.message
           ELSE IF Truthy(body.text) THEN body.text
           ELSE IF Truthy(body.input) THEN body.input
           ELSE JStr(<<>>)
  IN  JToString(v)

\* function getText(body)
getText(body) ==
  LET v == IF Truthy(MessageText(body.message)) THEN MessageText(body.message)
           ELSE IF Truthy(body.message) THEN body.message
           ELSE IF Truthy(body.text) THEN body.text
           ELSE IF Truthy(body.input) THEN body.input
           ELSE JStr(<<>>)
  IN  Trim(JToString(v))

\* the aliases under which a request may carry its text
Aliases == {"message.text", "message", "text", "input"}

\* the request body that carries the text s under the alias a
BodyOf(a, s, sid, school) ==
  [message |-> IF a = "message.text" THEN JObj(s)
               ELSE IF a = "message" THEN JStr(s) ELSE JUndef,
   text |-> IF a = "text" THEN JStr(s) ELSE JUndef,
   input |-> IF a = "input" THEN JStr(s) ELSE JUndef,
   sessionId |-> sid,
   school |-> school]

(***************************************************************************)
(* MCP tool-call client: tool selection and candidate payloads             *)
(* (callMcp, src/index.js and src/unnamed/part_001)                        *)
(***************************************************************************)
\* regex.test(s) for an unanchored, case-insensitive alternation of literals
TestAny(s, words) == \E k \in words : Includes(ToLower(s), k)

\* regex.test(s) for a case-insensitive alternation of \b-delimited literals
TestAnyWord(s, words) == \E k \in words : HasWord(ToLower(s), k)

\* s.replace(/\b(a1|a2|...)\b/gi, repl), scanning from position i
RECURSIVE ReplaceFrom(_, _, _, _)
ReplaceFrom(s, i, alts, repl) ==
  IF i > Len(s) THEN <<>>
  ELSE LET hits == {k \in 1..Len(alts) : WordAt(ToLower(s), i, alts[k])}
       IN  IF hits # {}
           THEN repl \o ReplaceFrom(s, i + Len(alts[SetMin(hits)]), alts, repl)
           ELSE <<s[i]>> \o ReplaceFrom(s, i + 1, alts, repl)

ReplaceWords(s, alts, repl) == ReplaceFrom(s, 1, alts, repl)

\* toolNames.find(pred) || fallback
FindOr(names, P(_), fallback) ==
  LET hits == {i \in 1..Len(names) : P(names[i])}
  IN  IF hits # {} /\ names[SetMin(hits)] # <<>> THEN names[SetMin(hits)] ELSE fallback

\* the default tool name of callMcp
DefaultTool == <<"q","u","e","r","y">>

\* callMcp: the tool chosen for a CFBD endpoint (the baseUrl.includes("cfbd") block)
cfbdTool(userText, toolNames, toolName) ==
  LET Is(n) == LET P(x) == x = n IN FindOr(toolNames, P, toolName)
  IN  IF ToLower(userText) = <<"h","i","s","t","o","r","y">>
         \/ TestAny(userText, {<<"w","h","a","t"," ","h","a","p","p","e","n","e","d">>, <<"t","e","l","l"," ","m","e"," ","a","b","o","u","t">>, <<"r","e","c","e","n","t"," ","h","i","s","t","o","r","y">>})
      THEN Is(<<"g","e","t","_","t","e","a","m","_","r","e","c","o","r","d","s">>)
      ELSE IF TestAny(userText, {<<"m","a","t","c","h","u","p">>, <<"v","s">>, <<"h","e","a","d"," ","t","o"," ","h","e","a","d">>, <<"a","g","a","i","n","s","t">>})
      THEN Is(<<"g","e","t","_","t","e","a","m","_","m","a","t","c","h","u","p">>)
      ELSE IF TestAny(userText, {<<"r","e","c","r","u","i","t","i","n","g">>, <<"r","e","c","r","u","i","t">>})
      THEN Is(<<"g","e","t","_","r","e","c","r","u","i","t","i","n","g">>)
      ELSE IF TestAny(userText, {<<"t","a","l","e","n","t">>, <<"c","o","m","p","o","s","i","t","e">>})
      THEN Is(<<"g","e","t","_","t","e","a","m","_","t","a","l","e","n","t">>)
      ELSE IF TestAny(userText, {<<"r","a","n","k","i","n","g">>, <<"r","a","n","k">>})
      THEN Is(<<"g","e","t","_","t","e","a","m","_","r","a","n","k","i","n","g","s">>)
      ELSE Is(<<"g","e","t","_","t","e","a","m","_","r","e","c","o","r","d","s">>)

\* callMcp: tool selection; withCfbd is FALSE for the variant of part_000,
\* which has no CFBD block
selectTool(baseUrl, userText, toolNames, withCfbd) ==
  LET IsScore(x) == x = <<"g","e","t","_","s","c","o","r","e">>
      IsGeneric(x) == TestAny(x, {<<"q","u","e","r","y">>, <<"s","e","a","r","c","h">>, <<"g","e","t">>, <<"f","e","t","c","h">>, <<"a","s","k">>})
      t1 == IF TestAny(userText, {<<"s","c","o","r","e">>, <<"g","a","m","e">>, <<"f","i","n","a","l">>, <<"r","e","s","u","l","t">>})
            THEN FindOr(toolNames, IsScore, DefaultTool)
            ELSE DefaultTool
      t2 == IF withCfbd /\ Includes(baseUrl, <<"c","f","b","d">>)
            THEN cfbdTool(userText, toolNames, t1)
            ELSE t1
      t3 == IF t2 = DefaultTool
            THEN FindOr(toolNames, IsGeneric, toolNames[1])
            ELSE t2
  IN  IF Len(toolNames) > 0 THEN t3 ELSE DefaultTool

\* callMcp: isMens / isWomens
isMens(userText) == TestAnyWord(userText, {<<"m","e","n","'","s">>, <<"m","e","n","s">>, <<"m","a","l","e">>})

isWomens(userText) == TestAnyWord(userText, {<<"w","o","m","e","n","'","s">>, <<"w","o","m","e","n","s">>, <<"f","e","m","a","l","e">>, <<"l","a","d","y">>, <<"l","a","d","i","e","s">>})

\* callMcp: teamName
teamNameOf(userText, toolName) ==
  IF toolName = <<"g","e","t","_","s","c","o","r","e">>
  THEN Trim(
         ReplaceWords(
           ReplaceWords(
             ReplaceWords(
               ReplaceWords(ToLower(userText),
                            <<<<"s","c","o","r","e">>, <<"g","a","m","e">>, <<"f","i","n","a","l">>, <<"r","e","s","u","l","t">>, <<"w","h","a","t","'","s">>, <<"w","h","a","t","s">>, <<"g","e","t">>, <<"s","h","o","w">>, <<"t","e","l","l"," ","m","e">>>>,
                            <<>>),
               <<<<"m","e","n","'","s">>, <<"m","e","n","s">>, <<"w","o","m","e","n","'","s">>, <<"w","o","m","e","n","s">>, <<"m","a","l","e">>, <<"f","e","m","a","l","e">>, <<"l","a","d","y">>, <<"l","a","d","i","e","s">>>>,
               <<>>),
             <<<<"o","u">>>>, <<"o","k","l","a","h","o","m","a">>),
           <<<<"s","o","o","n","e","r","s">>>>, <<"o","k","l","a","h","o","m","a">>))
  ELSE userText

\* the value null of the variable sport
NoSport == <<>>

\* callMcp: a gendered sport
Gendered(userText, base) ==
  IF isWomens(userText) THEN <<"w","o","m","e","n","s","-">> \o base
  ELSE IF isMens(userText) THEN <<"m","e","n","s","-">> \o base
  ELSE base

\* callMcp: sport
sportOf(userText, toolName) ==
  IF toolName # <<"g","e","t","_","s","c","o","r","e">> THEN NoSport
  ELSE IF TestAny(userText, {<<"b","a","s","k","e","t","b","a","l","l">>, <<"h","o","o","p","s">>, <<"b","b","a","l","l">>}) THEN Gendered(userText, <<"b","a","s","k","e","t","b","a","l","l">>)
  ELSE IF TestAny(userText, {<<"b","a","s","e","b","a","l","l">>}) THEN <<"b","a","s","e","b","a","l","l">>
  ELSE IF TestAny(userText, {<<"s","o","f","t","b","a","l","l">>}) THEN <<"s","o","f","t","b","a","l","l">>
  ELSE IF TestAny(userText, {<<"v","o","l","l","e","y","b","a","l","l">>, <<"v","b","a","l","l">>}) THEN Gendered(userText, <<"v","o","l","l","e","y","b","a","l","l">>)
  ELSE IF TestAny(userText, {<<"f","o","o","t","b","a","l","l">>, <<"f","b">>}) THEN <<"f","o","o","t","b","a","l","l">>
  ELSE IF TestAny(userText, {<<"s","o","c","c","e","r">>}) THEN Gendered(userText, <<"s","o","c","c","e","r">>)
  ELSE IF TestAny(userText, {<<"g","o","l","f">>}) THEN Gendered(userText, <<"g","o","l","f">>)
  ELSE IF TestAny(userText, {<<"g","y","m","n","a","s","t","i","c","s">>}) THEN Gendered(userText, <<"g","y","m","n","a","s","t","i","c","s">>)
  ELSE IF TestAny(userText, {<<"w","r","e","s","t","l","i","n","g">>}) THEN <<"w","r","e","s","t","l","i","n","g">>
  ELSE IF TestAny(userText, {<<"t","e","n","n","i","s">>}) THEN Gendered(userText, <<"t","e","n","n","i","s">>)
  ELSE IF TestAny(userText, {<<"t","r","a","c","k">>, <<"c","r","o","s","s"," ","c","o","u","n","t","r","y">>}) THEN Gendered(userText, <<"t","r","a","c","k">>)
  ELSE NoSport

\* Array.prototype.flatMap over a sequence of sequences
RECURSIVE Flatten(_)
Flatten(ss) == IF ss = <<>> THEN <<>> ELSE Head(ss) \o Flatten(Tail(ss))

\* sport.split("-")[1]
AfterDash(sp) ==
  LET d == SetMin({i \in 1..Len(sp) : sp[i] = "-"})
      rest == SubSeq(sp, d + 1, Len(sp))
      d2 == {i \in 1..Len(rest) : rest[i] = "-"}
  IN  IF d2 = {} THEN rest ELSE SubSeq(rest, 1, SetMin(d2) - 1)

Payload(toolName, args) == [name |-> toolName, arguments |-> args]

\* callMcp: the sports tried when the query names none
AllSports ==
  << <<"m","e","n","s","-","b","a","s","k","e","t","b","a","l","l">>, <<"b","a","s","k","e","t","b","a","l","l">>, <<"w","o","m","e","n","s","-","b","a","s","k","e","t","b","a","l","l">>, <<"f","o","o","t","b","a","l","l">>,
     <<"b","a","s","e","b","a","l","l">>, <<"s","o","f","t","b","a","l","l">>, <<"m","e","n","s","-","s","o","c","c","e","r">>, <<"s","o","c","c","e","r">>, <<"w","o","m","e","n","s","-","s","o","c","c","e","r">>,
     <<"w","o","m","e","n","s","-","v","o","l","l","e","y","b","a","l","l">>, <<"v","o","l","l","e","y","b","a","l","l">>, <<"m","e","n","s","-","g","o","l","f">>, <<"g","o","l","f">>, <<"w","o","m","e","n","s","-","g","o","l","f">>,
     <<"w","o","m","e","n","s","-","g","y","m","n","a","s","t","i","c","s">>, <<"g","y","m","n","a","s","t","i","c","s">>, <<"w","r","e","s","t","l","i","n","g">>, <<"m","e","n","s","-","t","e","n","n","i","s">>, <<"t","e","n","n","i","s">>,
     <<"w","o","m","e","n","s","-","t","e","n","n","i","s">> >>

\* callMcp: the get_score payloads
scorePayloads(userText, toolName) ==
  LET sport == sportOf(userText, toolName)
      teamName == teamNameOf(userText, toolName)
      named == <<teamName, <<"O","k","l","a","h","o","m","a"," ","S","o","o","n","e","r","s">>, <<"O","k","l","a","h","o","m","a">>, <<"O","U">>>>
      unnamed == <<<<"O","k","l","a","h","o","m","a">>, <<"O","k","l","a","h","o","m","a"," ","S","o","o","n","e","r","s">>, <<"O","U">>>>
  IN  IF toolName # <<"g","e","t","_","s","c","o","r","e">> THEN <<>>
      ELSE IF sport # NoSport
      THEN Flatten([t \in 1..Len(named) |->
             <<Payload(toolName, [team |-> named[t], sport |-> sport])>>
             \o (IF Includes(sport, <<"-">>)
                 THEN <<Payload(toolName, [team |-> named[t], sport |-> AfterDash(sport)])>>
                 ELSE <<>>)])
      ELSE Flatten([t \in 1..Len(unnamed) |->
             [s \in 1..Len(AllSports) |->
                Payload(toolName, [team |-> unnamed[t], sport |-> AllSports[s]])]])

\* callMcp: the payloads of the CFBD tools
cfbdPayloads(baseUrl, userText, toolName) ==
  LET teams == <<<<"O","k","l","a","h","o","m","a">>, <<"o","k","l","a","h","o","m","a">>, <<"O","k","l","a","h","o","m","a"," ","S","o","o","n","e","r","s">>, <<"O","U">>>>
      opponent == Trim(ReplaceWords(
                         ReplaceWords(ToLower(userText), <<<<"o","k","l","a","h","o","m","a">>, <<"s","o","o","n","e","r","s">>, <<"o","u">>>>, <<>>),
                         <<<<"v","s">>, <<"a","g","a","i","n","s","t">>, <<"v","e","r","s","u","s">>, <<"h","e","a","d"," ","t","o"," ","h","e","a","d">>>>, <<>>))
  IN  IF ~Includes(baseUrl, <<"c","f","b","d">>) THEN <<>>
      ELSE IF toolName = <<"g","e","t","_","t","e","a","m","_","r","e","c","o","r","d","s">>
      THEN Flatten([t \in 1..Len(teams) |->
             << Payload(toolName, [team |-> teams[t], startYear |-> 2020, endYear |-> 2024]),
                Payload(toolName, [team |-> teams[t]]) >>])
      ELSE IF toolName = <<"g","e","t","_","t","e","a","m","_","m","a","t","c","h","u","p">>
      THEN IF opponent # <<>>
           THEN [t \in 1..Len(teams) |->
                   Payload(toolName, [team1 |-> teams[t], team2 |-> opponent, minYear |-> 2000])]
           ELSE <<>>
      ELSE IF toolName = <<"g","e","t","_","t","e","a","m","_","r","a","n","k","i","n","g","s">>
      THEN Flatten([t \in 1..Len(teams) |->
             << Payload(toolName, [team |-> teams[t], year |-> 2024]),
                Payload(toolName, [team |-> teams[t]]) >>])
      ELSE IF toolName \in {<<"g","e","t","_","r","e","c","r","u","i","t","i","n","g">>, <<"g","e","t","_","t","e","a","m","_","t","a","l","e","n","t">>}
      THEN [t \in 1..Len(teams) |-> Payload(toolName, [team |-> teams[t]])]
      ELSE <<>>

\* a faulty candidate list: the generic payloads start with {query}
fallbackPayloadsSwapped(userText, toolName) ==
  << Payload(toolName, [query |-> userText]),
     Payload(toolName, [team |-> teamNameOf(userText, toolName)]),
     Payload(toolName, [text |-> userText]),
     Payload(toolName, [message |-> userText]),
     Payload(toolName, [q |-> userText]),
     Payload(toolName, [input |-> userText]) >>

\* callMcp: the generic fallback payloads
fallbackPayloads(userText, toolName) ==
  << Payload(toolName, [team |-> teamNameOf(userText, toolName)]),
     Payload(toolName, [query |-> userText]),
     Payload(toolName, [text |-> userText]),
     Payload(toolName, [message |-> userText]),
     Payload(toolName, [q |-> userText]),
     Payload(toolName, [input |-> userText]) >>

\* callMcp: payloadVariations
payloadVariations(baseUrl, userText, toolName) ==
  scorePayloads(userText, toolName)
  \o cfbdPayloads(baseUrl, userText, toolName)
  \o fallbackPayloads(userText, toolName)

(***************************************************************************)
(* MCP transport: fetchJson and extractMcpText                             *)
(***************************************************************************)
\* one item of result.content
Item(text, data) == [text |-> text, data |-> data, isNull |-> FALSE]

\* a null item of result.content
NullItem == [text |-> <<>>, data |-> <<>>, isNull |-> TRUE]

\* the member result of a body: undefined, a string, or an object with
\* content (an array or not) and text
NoResult == [t |-> "undef", s |-> <<>>, isArray |-> FALSE, content |-> <<>>, text |-> <<>>]

StrResult(s) == [t |-> "str", s |-> s, isArray |-> FALSE, content |-> <<>>, text |-> <<>>]

ObjResult(isArray, content, text) ==
  [t |-> "obj", s |-> <<>>, isArray |-> isArray, content |-> content, text |-> text]

\* a parsed JSON body: the members extractMcpText and callMcp read, and the
\* text JSON.stringify(body, null, 2) gives for it; the empty string stands
\* for an absent member
Json(error, result, response, reply, outputText, output, message, dataReply, pretty) ==
  [isNull |-> FALSE, error |-> error, result |-> result, response |-> response,
   reply |-> reply, output_text |-> outputText, output |-> output,
   message |-> message, dataReply |-> dataReply, pretty |-> pretty]

\* the value null of resp.json
JsonNull ==
  [isNull |-> TRUE, error |-> FALSE, result |-> NoResult, response |-> <<>>,
   reply |-> <<>>, output_text |-> <<>>, output |-> <<>>,
   message |-> <<>>, dataReply |-> <<>>, pretty |-> <<>>]

\* the first non-empty string of a sequence, "" when there is none (a || b || ... || "")
RECURSIVE FirstTruthy(_)
FirstTruthy(ss) ==
  IF ss = <<>> THEN <<>>
  ELSE IF Head(ss) # <<>> THEN Head(ss) ELSE FirstTruthy(Tail(ss))

\* Array.prototype.join("\n")
RECURSIVE JoinLines(_)
JoinLines(ss) ==
  IF ss = <<>> THEN <<>>
  ELSE IF Len(ss) = 1 THEN Head(ss)
  ELSE Head(ss) \o <<"\n">> \o JoinLines(Tail(ss))

\* does extractMcpText(data) throw (a null item in result.content)
extractThrows(data) ==
  /\ ~data.isNull
  /\ data.result.t = "obj"
  /\ data.result.isArray
  /\ \E i \in 1..Len(data.result.content) : data.result.content[i].isNull

\* function extractMcpText(data)
extractMcpText(data) ==
  LET result == data.result
      texts == [i \in 1..Len(result.content) |->
                  FirstTruthy(<<result.content[i].text, result.content[i].data>>)]
      NonEmpty(x) == x # <<>>
  IN  IF data.isNull THEN <<>>
      ELSE IF result.t = "obj" /\ result.isArray THEN JoinLines(FilterSeq(texts, NonEmpty))
      ELSE IF result.t = "obj" /\ result.text # <<>> THEN result.text
      ELSE IF result.t = "str" /\ result.s # <<>> THEN result.s
      ELSE FirstTruthy(<<data.response, data.reply, data.output_text, data.output,
                         data.message, data.dataReply>>)

\* what the remote end does with one request: it never answers in time
\* (abort), or answers with a status, a content type and a body
Http(status, isJson, parses, json, text) ==
  [abort |-> FALSE, status |-> status, isJson |-> isJson, parses |-> parses,
   json |-> json, text |-> text]

Aborted == [abort |-> TRUE, status |-> 0, isJson |-> FALSE, parses |-> FALSE,
            json |-> JsonNull, text |-> <<"T","h","i","s"," ","o","p","e","r","a","t","i","o","n"," ","w","a","s"," ","a","b","o","r","t","e","d">>]

\* async function fetchJson(url, payload, timeoutMs, method): the value it
\* resolves to for the remote behaviour h
fetchJson(h) ==
  IF h.abort THEN [ok |-> FALSE, status |-> 0, json |-> JsonNull, text |-> h.text]
  ELSE IF h.status \notin 200..299
  THEN [ok |-> FALSE, status |-> h.status, json |-> JsonNull, text |-> h.text]
  ELSE IF h.isJson /\ h.parses
  THEN [ok |-> TRUE, status |-> h.status, json |-> h.json, text |-> <<>>]
  ELSE [ok |-> TRUE, status |-> h.status, json |-> JsonNull, text |-> h.text]

\* the "no data found" sentinel
Sentinel == <<"N","o"," ","r","e","c","e","n","t"," ","g","a","m","e"," ","f","o","u","n","d">>

\* the shortest JSON dump callMcp returns
MinDumpLen == 20

\* a faulty callMcp loop body: the transport result and the error payload are
\* not looked at
attemptOutcomeLoose(resp) ==
  LET out == FirstTruthy(<<extractMcpText(resp.json), resp.text>>)
  IN  IF extractThrows(resp.json) THEN [do |-> "throw", text |-> <<>>]
      ELSE IF Includes(out, Sentinel) THEN [do |-> "next", text |-> <<>>]
      ELSE IF Trim(out) # <<>> THEN [do |-> "return", text |-> Trim(out)]
      ELSE [do |-> "next", text |-> <<>>]

\* a faulty callMcp loop body: the answer is not searched for the sentinel
attemptOutcomeAny(resp) ==
  LET out == FirstTruthy(<<extractMcpText(resp.json), resp.text>>)
  IN  IF resp.ok /\ ~resp.json.error /\ ~extractThrows(resp.json) /\ Trim(out) # <<>>
      THEN [do |-> "return", text |-> Trim(out)]
      ELSE [do |-> "next", text |-> <<>>]

\* callMcp loop body: what one attempt's response leads to: "throw",
\* "next" (try the next candidate) or "return" with a text
attemptOutcome(resp) ==
  LET out == FirstTruthy(<<extractMcpText(resp.json), resp.text>>)
  IN  IF resp.ok /\ ~resp.json.error
      THEN IF extractThrows(resp.json) THEN [do |-> "throw", text |-> <<>>]
           ELSE IF Includes(out, Sentinel) THEN [do |-> "next", text |-> <<>>]
           ELSE IF Trim(out) # <<>> THEN [do |-> "return", text |-> Trim(out)]
           ELSE IF ~resp.json.isNull
                   /\ Len(resp.json.pretty) > MinDumpLen
                   /\ ~Includes(resp.json.pretty, Sentinel)
           THEN [do |-> "return", text |-> resp.json.pretty]
           ELSE [do |-> "next", text |-> <<>>]
      ELSE [do |-> "next", text |-> <<>>]

\* remote behaviours on tools/call, by name
CallBehaviour ==
  [ timeout |-> Aborted,
    non2xx |-> Http(500, FALSE, FALSE, JsonNull, <<"I","n","t","e","r","n","a","l"," ","S","e","r","v","e","r"," ","E","r","r","o","r">>),
    rpcerror |-> Http(200, TRUE, TRUE,
                   Json(TRUE, NoResult, <<>>, <<>>, <<>>, <<>>, <<>>, <<>>, <<"{","\n"," "," ","\"","e","r","r","o","r","\"",":"," ","{","\n"," "," "," "," ","\"","c","o","d","e","\"",":"," ","-","3","2","6","0","2",",","\n"," "," "," "," ","\"","m","e","s","s","a","g","e","\"",":"," ","\"","I","n","v","a","l","i","d"," ","p","a","r","a","m","s","\"","\n"," "," ","}","\n","}">>), <<>>),
    sentinel |-> Http(200, TRUE, TRUE,
                   Json(FALSE, ObjResult(TRUE, <<Item(<<"N","o"," ","r","e","c","e","n","t"," ","g","a","m","e"," ","f","o","u","n","d"," ","f","o","r"," ","O","U">>, <<>>)>>, <<>>),
                        <<>>, <<>>, <<>>, <<>>, <<>>, <<>>, <<"{","\n"," "," ","\"","r","e","s","u","l","t","\"",":"," ","{","\n"," "," "," "," ","\"","c","o","n","t","e","n","t","\"",":"," ","[","\n"," "," "," "," "," "," ","{","\n"," "," "," "," "," "," "," "," ","\"","t","y","p","e","\"",":"," ","\"","t","e","x","t","\"",",","\n"," "," "," "," "," "," "," "," ","\"","t","e","x","t","\"",":"," ","\"","N","o"," ","r","e","c","e","n","t"," ","g","a","m","e"," ","f","o","u","n","d"," ","f","o","r"," ","O","U","\"","\n"," "," "," "," "," "," ","}","\n"," "," "," "," ","]","\n"," "," ","}","\n","}">>), <<>>),
    valid |-> Http(200, TRUE, TRUE,
                   Json(FALSE, ObjResult(TRUE, <<Item(<<" ","O","U"," ","3","5",","," ","T","e","x","a","s"," ","1","0"," ">>, <<>>)>>, <<>>),
                        <<>>, <<>>, <<>>, <<>>, <<>>, <<>>, <<"{","\n"," "," ","\"","r","e","s","u","l","t","\"",":"," ","{","\n"," "," "," "," ","\"","c","o","n","t","e","n","t","\"",":"," ","[","\n"," "," "," "," "," "," ","{","\n"," "," "," "," "," "," "," "," ","\"","t","y","p","e","\"",":"," ","\"","t","e","x","t","\"",",","\n"," "," "," "," "," "," "," "," ","\"","t","e","x","t","\"",":"," ","\""," ","O","U"," ","3","5",","," ","T","e","x","a","s"," ","1","0"," ","\"","\n"," "," "," "," "," "," ","}","\n"," "," "," "," ","]","\n"," "," ","}","\n","}">>), <<>>),
    reply |-> Http(200, TRUE, TRUE,
                   Json(FALSE, NoResult, <<>>, <<"S","o","o","n","e","r","s"," ","l","e","a","d"," ","3","-","1">>, <<>>, <<>>, <<>>, <<>>, <<"{","\n"," "," ","\"","r","e","p","l","y","\"",":"," ","\"","S","o","o","n","e","r","s"," ","l","e","a","d"," ","3","-","1","\"","\n","}">>), <<>>),
    plain |-> Http(200, FALSE, FALSE, JsonNull, <<"O","U"," ","w","o","n">>),
    empty |-> Http(200, FALSE, FALSE, JsonNull, <<>>),
    blank |-> Http(200, FALSE, FALSE, JsonNull, <<" "," ">>),
    emptyObject |-> Http(200, TRUE, TRUE,
                   Json(FALSE, NoResult, <<>>, <<>>, <<>>, <<>>, <<>>, <<>>, <<"{","}">>), <<>>),
    smallObject |-> Http(200, TRUE, TRUE,
                   Json(FALSE, NoResult, <<>>, <<>>, <<>>, <<>>, <<>>, <<>>, <<"{","\n"," "," ","\"","w","i","n","s","\"",":"," ","1","0","\n","}">>), <<>>),
    noText |-> Http(200, TRUE, TRUE,
                   Json(FALSE, ObjResult(TRUE, <<>>, <<>>),
                        <<>>, <<>>, <<>>, <<>>, <<>>, <<>>, <<"{","\n"," "," ","\"","r","e","s","u","l","t","\"",":"," ","{","\n"," "," "," "," ","\"","c","o","n","t","e","n","t","\"",":"," ","[","]","\n"," "," ","}","\n","}">>), <<>>),
    sentinelDump |-> Http(200, TRUE, TRUE,
                   Json(FALSE, NoResult, <<>>, <<>>, <<>>, <<>>, <<>>, <<>>, <<"{","\n"," "," ","\"","s","t","a","t","u","s","\"",":"," ","\"","N","o"," ","r","e","c","e","n","t"," ","g","a","m","e"," ","f","o","u","n","d","\"","\n","}">>), <<>>),
    nullItem |-> Http(200, TRUE, TRUE,
                   Json(FALSE, ObjResult(TRUE, <<NullItem>>, <<>>),
                        <<>>, <<>>, <<>>, <<>>, <<>>, <<>>, <<"{","\n"," "," ","\"","r","e","s","u","l","t","\"",":"," ","{","\n"," "," "," "," ","\"","c","o","n","t","e","n","t","\"",":"," ","[","\n"," "," "," "," "," "," ","n","u","l","l","\n"," "," "," "," ","]","\n"," "," ","}","\n","}">>), <<>>) ]

CallKinds == DOMAIN CallBehaviour

(***************************************************************************)
(* Deployment data: question banks, provider URLs, schools                 *)
(***************************************************************************)
\* one record of trivia.json; Undef for a missing member, <<>> for no wrongAnswers
Rec(q, a, e, w) == [question |-> q, answer |-> a, explanation |-> e, wrongAnswers |-> w]

\* TRIVIA[0] of an empty bank
NoRec == Rec(Undef, Undef, Undef, <<>>)

\* trivia.json missing or empty
BankEmpty == <<>>

\* four distinct answers, none pre-authored; one answer is shorter than three
\* characters and padded
BankFour ==
  << Rec(<<"Q","1">>, <<"T","e","x","a","s">>, <<"E">>, <<>>),
     Rec(<<"Q","2">>, <<" ","O","U"," ">>, <<"E">>, <<>>),
     Rec(<<"Q","3">>, <<"N","e","b","r","a","s","k","a">>, <<"E">>, <<>>),
     Rec(<<"Q","4">>, <<"A","l","a","b","a","m","a">>, <<"E">>, <<>>) >>

\* a bank whose first record carries pre-authored wrong answers (four of
\* them, one padded), over four distinct answers; one record has no explanation
BankAuthored ==
  << Rec(<<"Q","1">>, <<"T","e","x","a","s">>, <<"E">>, <<<<"B","a","y","l","o","r">>, <<"R","i","c","e"," ">>, <<"T","u","l","s","a">>, <<"A","r","m","y">>>>),
     Rec(<<"Q","2">>, <<"K","a","n","s","a","s">>, Undef, <<>>),
     Rec(<<"Q","3">>, <<"N","e","b","r","a","s","k","a">>, <<"E">>, <<>>),
     Rec(<<"Q","4">>, <<"A","l","a","b","a","m","a">>, <<"E">>, <<>>) >>

\* a bank whose first record lists its own answer, in another case and
\* padded, among its pre-authored wrong answers
BankEcho ==
  << Rec(<<"Q","1">>, <<"T","e","x","a","s">>, <<"E">>, <<<<" ","t","e","x","a","s">>, <<"R","i","c","e">>, <<"T","u","l","s","a">>>>),
     Rec(<<"Q","2">>, <<"K","a","n","s","a","s">>, <<"E">>, <<>>),
     Rec(<<"Q","3">>, <<"N","e","b","r","a","s","k","a">>, <<"E">>, <<>>),
     Rec(<<"Q","4">>, <<"A","l","a","b","a","m","a">>, <<"E">>, <<>>) >>

\* five records: the answers of four are of plausible length, one is too
\* short to be plausible
BankFive ==
  << Rec(<<"Q","1">>, <<"T","e","x","a","s">>, <<"E">>, <<>>),
     Rec(<<"Q","2">>, <<" ","O","U"," ">>, <<"E">>, <<>>),
     Rec(<<"Q","3">>, <<"N","e","b","r","a","s","k","a">>, <<"E">>, <<>>),
     Rec(<<"Q","4">>, <<"A","l","a","b","a","m","a">>, <<"E">>, <<>>),
     Rec(<<"Q","5">>, <<"K","a","n","s","a","s">>, <<"E">>, <<>>) >>

\* four records, two of them with the same answer in another case and padded
BankTwice ==
  << Rec(<<"Q","1">>, <<"T","e","x","a","s">>, <<"E">>, <<>>),
     Rec(<<"Q","2">>, <<"K","a","n","s","a","s">>, <<"E">>, <<>>),
     Rec(<<"Q","3">>, <<"k","a","n","s","a","s"," ">>, <<"E">>, <<>>),
     Rec(<<"Q","4">>, <<"A","l","a","b","a","m","a">>, <<"E">>, <<>>) >>

\* a bank of two records: one distinct wrong answer for either of them
BankTwo ==
  << Rec(<<"Q","1">>, <<"T","e","x","a","s">>, <<"E">>, <<>>),
     Rec(<<"Q","2">>, <<"K","a","n","s","a","s">>, <<"E">>, <<>>) >>

\* provider base URLs after the trailing-slash strip; <<>> when the variable is not set
EnvAll == [video |-> <<"v",".","i","o">>, espn |-> <<"e","s","p","n",".","i","o">>, cfbd |-> <<"c","f","b","d",".","i","o">>]

EnvNone == [video |-> <<>>, espn |-> <<>>, cfbd |-> <<>>]

\* the programs of the repository: "model" (index.js), "rule" (part_001),
\* "cached" (part_000)
Modes == {"model", "rule", "cached"}

\* the deployments: everything configured, or nothing
Deployments ==
  {[mode |-> m, bank |-> BankFour, env |-> EnvAll] : m \in Modes}
    \cup {[mode |-> m, bank |-> BankEmpty, env |-> EnvNone] : m \in Modes}

\* schools.json as loaded by schools.js: the default school and one more
SCHOOLS ==
  << [id |-> "sooners", isDefault |-> TRUE, displayName |-> "OU"],
     [id |-> "osu", isDefault |-> FALSE, displayName |-> "OSU"] >>

\* getAllSchools().find(s => s.id === schoolId) || getAllSchools().find(s => s.isDefault)
findSchool(schoolId) ==
  LET byId == {i \in 1..Len(SCHOOLS) : SCHOOLS[i].id = schoolId}
      byDefault == {i \in 1..Len(SCHOOLS) : SCHOOLS[i].isDefault}
  IN  IF byId # {} THEN SCHOOLS[SetMin(byId)].id
      ELSE IF byDefault # {} THEN SCHOOLS[SetMin(byDefault)].id
      ELSE "none"

(***************************************************************************)
(* Bounds of the model                                                     *)
(***************************************************************************)
\* requests accepted over a run
MaxArrivals == 3

\* sweep intervals the clock advances over a run
MaxTime == 5

\* tool-calling rounds the generative model asks for per request
MaxLoops == 1

\* rounds of the tool-calling loop followed for one request while the loop
\* is checked on its own
MaxRounds == 6

\* the request slots: the requests the server can have in flight at a time
ReqIds == {1, 2}

(***************************************************************************)
(* Inputs                                                                  *)
(***************************************************************************)
\* the texts clients send to the chat service
Texts ==
  { <<"a">>, <<" ","B"," ">>, <<"t","r","i","v","i","a">>, <<"v","i","d","e","o">>, <<"s","t","a","t","s">>, <<"h","i","s","t","o","r","y">>, <<"h","e","l","l","o">>, <<" "," ">> }

\* the texts of the stats and history requests sent to the tool-call client
StatsTexts == { <<"s","t","a","t","s">>, <<"o","u"," ","f","b"," ","s","c","o","r","e">>, <<"s","c","o","r","e">>, <<"h","i","s","t","o","r","y">>, <<"o","u"," ","v","s"," ","t","e","x","a","s">> }

\* the session identifiers clients send; "" when the request carries none
SidFields == {"", "s1"}

\* the request bodies clients send: every text under the alias message; an
\* answer and a trivia request in a second session; the other aliases; a
\* school nobody knows; an empty text
Bodies ==
  {BodyOf("message", s, "", "") : s \in Texts}
    \cup {BodyOf("message", s, "s1", "") : s \in {<<"a">>, <<"t","r","i","v","i","a">>}}
    \cup {BodyOf(a, s, "", "") : a \in Aliases, s \in {<<" ","B"," ">>, <<"t","r","i","v","i","a">>}}
    \cup {BodyOf("message", <<"h","e","l","l","o">>, "", "zzz")}
    \cup {BodyOf("text", <<>>, "", "")}

\* the bodies of the stats and history requests
StatsBodies == {BodyOf("message", s, "", "") : s \in StatsTexts}

\* texts with the keywords of several intents, and of one
RouteTexts ==
  { <<"t","r","i","v","i","a"," ","v","i","d","e","o">>,
    <<"v","i","d","e","o"," ","s","c","o","r","e">>,
    <<"v","i","d","e","o"," ","s","e","a","s","o","n">>,
    <<"s","c","o","r","e"," ","s","e","a","s","o","n">>,
    <<"v","i","d","e","o">>, <<"s","e","a","s","o","n">>, <<"h","e","l","l","o">>, <<"a">> }

\* the bodies that carry them
RouteBodies == {BodyOf("message", s, "", "") : s \in RouteTexts}

\* the stats and history texts, and a history text that mentions a result
SelectBodies == StatsBodies \cup {BodyOf("message", <<"s","e","a","s","o","n"," ","r","e","s","u","l","t">>, "", "")}

\* every body a client sends in some specification
AllBodies == Bodies \cup StatsBodies \cup RouteBodies \cup SelectBodies

\* req.body?.sessionId || req.body?.session_id || "default"
sessionIdOf(body) == IF body.sessionId # "" THEN body.sessionId ELSE "default"

\* req.body?.school || "sooners"
schoolIdOf(body) == IF body.school # "" THEN body.school ELSE "sooners"

\* the alias under which the body carries its text (of the bodies built by BodyOf)
aliasOf(body) ==
  IF body.message.t = "obj" THEN "message.text"
  ELSE IF body.message.t = "str" THEN "message"
  ELSE IF body.text.t = "str" THEN "text"
  ELSE "input"

\* the text the client put into the body, as sent
sentText(body) ==
  IF body.message.t # "undef" THEN body.message.s
  ELSE IF body.text.t # "undef" THEN body.text.s
  ELSE body.input.s

\* the console.log before the try block of index.js:
\* req.body?.message?.substring(0, 40) throws when message is neither a
\* string nor null / undefined
logLineThrows(body) == body.message.t = "obj"

\* what the handlers compute from the body before they branch: the session
\* id, getText and the intent helpers, for every body
classify ==
  [b \in AllBodies |->
     LET rawText == getText(b)
     IN  [sessionId |-> sessionIdOf(b),
          sent |-> sentText(b),
          school |-> findSchool(schoolIdOf(b)),
          alias |-> aliasOf(b),
          logThrows |-> logLineThrows(b),
          rawText |-> rawText,
          text |-> ToLower(rawText),
          isAnswerChoice |-> isAnswerChoice(ToLower(rawText)),
          isTriviaRequest |-> isTriviaRequest(rawText),
          isVideoRequest |-> isVideoRequest(rawText),
          isESPNStatsRequest |-> isESPNStatsRequest(rawText),
          isCFBDHistoryRequest |-> isCFBDHistoryRequest(rawText)]]

SessionIds == {"default", "s1"}

Endpoints == {"espn", "cfbd"}

\* the tool lists a tools/list call discovers
ToolsEspn == << <<"g","e","t","_","s","c","h","e","d","u","l","e">>, <<"g","e","t","_","s","c","o","r","e">> >>

ToolsCfbd == << <<"l","o","o","k","u","p">>, <<"g","e","t","_","t","e","a","m","_","r","e","c","o","r","d","s">>, <<"g","e","t","_","t","e","a","m","_","m","a","t","c","h","u","p">> >>

ToolLists == { <<>>, ToolsEspn, ToolsCfbd }

\* tool lists any endpoint may answer with: one name without a generic verb;
\* a score tool between such a name and a CFBD tool
ToolsPlain == << <<"l","o","o","k","u","p">> >>

ToolsBoth == << <<"l","o","o","k","u","p">>, <<"g","e","t","_","s","c","o","r","e">>, <<"g","e","t","_","t","e","a","m","_","r","e","c","o","r","d","s">> >>

SelectLists == ToolLists \cup {ToolsPlain, ToolsBoth}

\* remote behaviours on tools/list: abort, non-2xx, a body without tools, a tool list
ListKinds == {"timeout", "non2xx", "noTools", "tools"}

\* async function getMcpTools(baseUrl): the tool names it resolves to
getMcpTools(kind, tools) == IF kind = "tools" THEN tools ELSE <<>>

(***************************************************************************)
(* State                                                                   *)
(***************************************************************************)
VARIABLES
  mode,       \* the program deployed: "model" (index.js), "rule" (part_001), "cached" (part_000)
  TRIVIA,     \* the question bank loaded at start
  env,        \* the provider URLs
  sessions,   \* the session map: session id -> session
  toolCache,  \* cached mode: endpoint -> discovered tool names
  req,        \* the chat requests in flight and their responses
  mcp,        \* the callMcp invocation of each request
  llm,        \* the tool-calling loop of each request, and the question it drew last (shown)
  now,        \* the clock, in sweep intervals
  alive,      \* the process is running
  arrivals,   \* requests accepted so far
  lastReq,    \* the request accepted last, as the client sent it
  owner,      \* per request slot: the session id its request was accepted with
  listCalls,  \* tools/list calls issued so far, per endpoint
  hist,       \* per session id: the last trivia event ("none", "issued", "answered")
  quiz        \* the question getTriviaQuestion / buildMCQ returned last

vars == <<mode, TRIVIA, env, sessions, toolCache, req, mcp, llm, now, alive, arrivals, lastReq, owner, listCalls, hist, quiz>>

\* the session map has no entry (options: the number of options of the
\* question asked last, which the program shows but does not store)
NoSession ==
  [present |-> FALSE, active |-> FALSE, correctIndex |-> -1, explain |-> Undef,
   chat |-> <<>>, lastSeen |-> 0, options |-> 0]

\* sessions.set(sessionId, { chat: [] }) / sessions.set(sessionId, {})
NewSession ==
  [present |-> TRUE, active |-> FALSE, correctIndex |-> -1, explain |-> Undef,
   chat |-> <<>>, lastSeen |-> 0, options |-> 0]

\* the cache has no entry
NoTools == [present |-> FALSE, tools |-> <<>>]

NoReply == [kind |-> "none", text |-> <<>>, letter |-> "", n |-> 0]

\* res.json({ response }): the kind of the reply, the text it quotes, the
\* letter it names, the number of items it lists
Reply(kind, text, letter, n) == [kind |-> kind, text |-> text, letter |-> letter, n |-> n]

\* a request slot: where the handler stands, its locals sessionId and
\* rawText while it runs, and the responses sent
IdleReq == [pc |-> "idle", sid |-> "default", text |-> <<>>, reply |-> NoReply, sent |-> 0, status |-> 0]

\* a callMcp invocation: the endpoint, the tools discovered, the tool chosen,
\* the number n of candidate payloads, the index i of the candidate being
\* tried, the tools/call requests sent, the kind of the last answer, whether
\* all the answers so far carried the sentinel, and whether all those before
\* the last did
IdleMcp == [base |-> "none", tools |-> <<>>, toolName |-> <<>>,
            n |-> 0, i |-> 0, calls |-> 0, allSentinel |-> TRUE, before |-> TRUE, last |-> "none"]

IdleLlm == [loops |-> 0, pending |-> <<>>, followUp |-> FALSE, shown |-> -1]

NoQuiz == [asked |-> FALSE, record |-> NoRec, question |-> <<>>, options |-> <<>>, correctIndex |-> -1]

NoReq == [sid |-> "default", alias |-> "", text |-> <<>>]

\* the state after the module is loaded, but for the deployment
Loaded ==
  /\ sessions = [s \in SessionIds |-> NoSession]
  /\ toolCache = [e \in Endpoints |-> NoTools]
  /\ req = [r \in ReqIds |-> IdleReq]
  /\ mcp = [r \in ReqIds |-> IdleMcp]
  /\ llm = [r \in ReqIds |-> IdleLlm]
  /\ now = 1
  /\ alive = TRUE
  /\ arrivals = 0
  /\ lastReq = NoReq
  /\ owner = [r \in ReqIds |-> "default"]
  /\ listCalls = [e \in Endpoints |-> 0]
  /\ hist = [s \in SessionIds |-> "none"]
  /\ quiz = NoQuiz

Init ==
  /\ \E d \in Deployments : mode = d.mode /\ TRIVIA = d.bank /\ env = d.env
  /\ Loaded

(***************************************************************************)
(* The /chat handler up to its first await                                 *)
(***************************************************************************)
\* the request slot r can take a new request
Free(r) == req[r].pc \in {"idle", "done", "lost"}

\* a request is accepted into slot r, the first free one
Accept(r, body) ==
  /\ alive /\ Free(r) /\ arrivals < MaxArrivals
  /\ \A q \in ReqIds : Free(q) => r <= q
  /\ arrivals' = arrivals + 1
  /\ lastReq' = [sid |-> classify[body].sessionId, alias |-> classify[body].alias,
                 text |-> classify[body].sent]
  /\ owner' = [owner EXCEPT ![r] = classify[body].sessionId]

\* a faulty session lookup: the session is created anew for every request
sessionOfFresh(sessionId) == NewSession

\* sessions.get(sessionId) after the has / set of the handler
sessionOf(sessionId) ==
  IF sessions[sessionId].present THEN sessions[sessionId] ELSE NewSession

\* the request slots when slot r takes a new request: the responses of the
\* finished requests have been delivered
taken(r, slot) ==
  [q \in ReqIds |-> IF q = r THEN slot ELSE IF Free(q) THEN IdleReq ELSE req[q]]

\* res.json({ response: ... }) ends the request r before any await
Respond(r, reply) ==
  req' = taken(r, [IdleReq EXCEPT !.pc = "done", !.reply = reply, !.sent = 1, !.status = 200])

\* a faulty handler: after an await it goes on with the default session
AwaitDefault(r, sessionId, rawText, pc) ==
  req' = taken(r, [IdleReq EXCEPT !.pc = pc, !.sid = "default", !.text = rawText])

\* the handler of r goes on at the await named pc
Await(r, sessionId, rawText, pc) ==
  req' = taken(r, [IdleReq EXCEPT !.pc = pc, !.sid = sessionId, !.text = rawText])

\* the callMcp invocations and the tool-calling loops of the requests that
\* are still running
mcpKept == [q \in ReqIds |-> IF Free(q) THEN IdleMcp ELSE mcp[q]]

llmKept == [q \in ReqIds |-> IF Free(q) THEN IdleLlm ELSE llm[q]]

\* the request does not call the tool-call client
NoMcp == mcp' = mcpKept /\ UNCHANGED listCalls

\* the request of slot r is lost: no response will be sent
Lost(r) == req' = taken(r, [IdleReq EXCEPT !.pc = "lost"])

\* a faulty letter table: the positions count from one
answerIndexFromOne(text) ==
  CASE text = <<"a">> -> 1
    [] text = <<"b">> -> 2
    [] text = <<"c">> -> 3
    [] text = <<"d">> -> 4
    [] OTHER -> -1

\* { a: 0, b: 1, c: 2, d: 3 }[text]
answerIndex(text) ==
  CASE text = <<"a">> -> 0
    [] text = <<"b">> -> 1
    [] text = <<"c">> -> 2
    [] text = <<"d">> -> 3
    [] OTHER -> -1

\* ["A", "B", "C", "D"][i]
letterOf(i) == IF i \in 0..3 THEN <<"A", "B", "C", "D">>[i + 1] ELSE "undefined"

\* the trivia-answer branch: the reply for the answer text
grade(session, text) ==
  IF answerIndex(text) = session.correctIndex
  THEN Reply("correct", session.explain, "", 0)
  ELSE Reply("not_quite", session.explain, letterOf(session.correctIndex), 0)

\* a faulty trivia-answer branch: the question stays open
answeredStillOpen(session) == session

\* the trivia-answer branch: session.active = false
answered(session) == [session EXCEPT !.active = FALSE]

\* the banks the trivia engine is run on
Banks == {BankEmpty, BankFour, BankAuthored, BankEcho, BankTwo, BankFive, BankTwice}

\* the bank as the buildMCQ of part_001 and part_000 reads it: that function
\* has no branch for q.wrongAnswers
unauthored(bank) == [k \in 1..Len(bank) |-> [bank[k] EXCEPT !.wrongAnswers = <<>>]]

\* the bank as the running program's buildMCQ reads it
bankRead(bank) == IF mode = "model" THEN bank ELSE unauthored(bank)

\* the questions of each bank and record, over all shuffle outcomes
mcqTable ==
  [b \in Banks \cup {unauthored(x) : x \in Banks} |->
     [k \in 1..Len(b) |-> buildMCQOutcomes(b[k], b)]]

\* !mcq.question || !mcq.options?.length || mcq.correctIndex < 0
unusable(mcq) == mcq.question = <<>> \/ Len(mcq.options) = 0 \/ mcq.correctIndex < 0

\* what the handlers read of a question: whether it is usable, the index and
\* the explanation they store, the number of options they list
drawn(mcq) ==
  [unusable |-> unusable(mcq), correctIndex |-> mcq.correctIndex,
   explanation |-> mcq.explanation, n |-> Len(mcq.options)]

\* buildMCQ(TRIVIA[Math.floor(Math.random() * TRIVIA.length)]) for every
\* bank: its outcomes over the records and the shuffles
drawTable ==
  [b \in DOMAIN mcqTable |->
     IF Len(b) = 0 THEN {drawn(m) : m \in buildMCQOutcomes(NoRec, b)}
     ELSE UNION {{drawn(m) : m \in mcqTable[b][k]} : k \in 1..Len(b)}]

\* the outcomes of drawing a question from the bank of the running program
randomMCQ(bank) == drawTable[bankRead(bank)]

\* a faulty handler: the position of the correct option is stored counting
\* from one
askedFromOne(session, mcq) ==
  [session EXCEPT !.active = TRUE, !.correctIndex = mcq.correctIndex + 1,
                  !.explain = mcq.explanation, !.options = mcq.n]

\* session.active = true; session.correctIndex = ...; session.explain = ...
asked(session, mcq) ==
  [session EXCEPT !.active = TRUE, !.correctIndex = mcq.correctIndex,
                  !.explain = mcq.explanation, !.options = mcq.n]

\* the size of the chat history kept when a user turn is added
HistoryLimit == 10

\* Array.prototype.slice(-n)
LastN(s, n) == IF Len(s) <= n THEN s ELSE SubSeq(s, Len(s) - n + 1, Len(s))

\* a turn of session.chat: its role, the function names of the tool_calls an
\* assistant turn carries, and for a tool turn the function that was called
\* and the kind of its result
Turn(role, calls, name, result) == [role |-> role, calls |-> calls, name |-> name, result |-> result]

\* a faulty handler: a message that goes to the model drops the pending
\* question
saidClosed(session) ==
  [session EXCEPT !.chat = LastN(Append(session.chat, Turn("user", <<>>, "", "")), HistoryLimit),
                  !.active = FALSE]

\* session.chat.push({ role: "user", content: rawText }); session.chat =
\* session.chat.slice(-10)
said(session) ==
  [session EXCEPT !.chat = LastN(Append(session.chat, Turn("user", <<>>, "", "")), HistoryLimit)]

\* what becomes of a promise rejection nobody handles: the process exits
\* (the default of Node 15 and later), or the rejection is only reported
Unhandled == {"exit", "ignored"}

\* app.post("/chat") of index.js (model-routed), up to the first model call
ChatModel(r, body) ==
  /\ mode = "model" /\ Accept(r, body)
  /\ UNCHANGED <<mode, TRIVIA, env, toolCache, mcp, now, listCalls, quiz>>
  /\ LET c == classify[body]
         session == sessionOf(c.sessionId)
     IN  IF c.logThrows
         THEN /\ \E u \in Unhandled : alive' = (u # "exit")
              /\ Lost(r)
              /\ llm' = llmKept
              /\ UNCHANGED <<sessions, hist>>
         ELSE IF c.school = "none"
         THEN /\ Respond(r, Reply("school_not_found", <<>>, "", 0))
              /\ llm' = llmKept
              /\ UNCHANGED <<sessions, alive, hist>>
         ELSE IF c.rawText = <<>>
         THEN /\ Respond(r, Reply("greeting", <<>>, "", 0))
              /\ llm' = llmKept
              /\ UNCHANGED <<sessions, alive, hist>>
         ELSE IF session.active /\ c.isAnswerChoice
         THEN /\ sessions' = [sessions EXCEPT ![c.sessionId] = answered(session)]
              /\ hist' = [hist EXCEPT ![c.sessionId] = "answered"]
              /\ Respond(r, grade(session, c.text))
              /\ llm' = llmKept
              /\ UNCHANGED alive
         ELSE /\ sessions' = [sessions EXCEPT ![c.sessionId] = said(session)]
              /\ llm' = llmKept
              /\ Await(r, c.sessionId, c.rawText, "llm")
              /\ UNCHANGED <<alive, hist>>

\* the URL of an endpoint
urlOf(base) == IF base = "espn" THEN EnvAll.espn ELSE EnvAll.cfbd

\* callMcp from tool selection on: the tool chosen and the length of the
\* candidate list, for every endpoint, text, discovered tool list and
\* selection (with or without the CFBD rules)
selection ==
  [withCfbd \in BOOLEAN, base \in Endpoints, userText \in {classify[b].rawText : b \in AllBodies}, tools \in SelectLists |->
     LET toolName == selectTool(urlOf(base), userText, tools, withCfbd)
     IN  [toolName |-> toolName, n |-> Len(payloadVariations(urlOf(base), userText, toolName))]]

\* callMcp after discovery: the first candidate is sent
mcpSelected(base, userText, tools) ==
  LET s == selection[mode # "cached", base, userText, tools]
  IN  [base |-> base, tools |-> tools, toolName |-> s.toolName, n |-> s.n,
       i |-> 1, calls |-> 1, allSentinel |-> TRUE, before |-> TRUE, last |-> "none"]

\* callMcp(baseUrl, userText) up to its first await: the tools/list call of
\* getMcpTools, or in the cached variant the first tools/call on a cache hit
StartMcp(r, base, userText) ==
  IF mode = "cached" /\ toolCache[base].present
  THEN /\ mcp' = [mcpKept EXCEPT ![r] = mcpSelected(base, userText, toolCache[base].tools)]
       /\ UNCHANGED listCalls
  ELSE /\ mcp' = [mcpKept EXCEPT ![r] = [IdleMcp EXCEPT !.base = base]]
       /\ listCalls' = [listCalls EXCEPT ![base] = @ + 1]

\* the await a request inside callMcp stands at after StartMcp
mcpPc(base) == IF mode = "cached" /\ toolCache[base].present THEN "call" ELSE "list"

\* the trivia branch of part_001: the question for a record and a shuffle
\* outcome, or the reply that there is none
TriviaRule(r, sessionId, session) ==
  IF Len(TRIVIA) = 0
  THEN /\ sessions' = [sessions EXCEPT ![sessionId] = session]
       /\ Respond(r, Reply("warming_up", <<>>, "", 0))
       /\ UNCHANGED hist
  ELSE \E mcq \in randomMCQ(TRIVIA) :
         IF mcq.unusable
         THEN /\ sessions' = [sessions EXCEPT ![sessionId] = session]
              /\ Respond(r, Reply("hiccup", <<>>, "", 0))
              /\ UNCHANGED hist
         ELSE /\ sessions' = [sessions EXCEPT ![sessionId] =
                     asked(session, mcq)]
              /\ hist' = [hist EXCEPT ![sessionId] = "issued"]
              /\ Respond(r, Reply("question", <<>>, "", mcq.n))

\* the ESPN or CFBD branch: the capability is not configured, or callMcp starts
StatsBranch(r, base, url, c) ==
  IF url = <<>>
  THEN Respond(r, Reply("not_enabled", <<>>, "", 0)) /\ NoMcp
  ELSE StartMcp(r, base, c.rawText) /\ Await(r, c.sessionId, c.rawText, mcpPc(base))

\* app.post("/chat") of part_001 (rule-routed), up to the first await
ChatRule(r, body) ==
  /\ mode = "rule" /\ Accept(r, body)
  /\ UNCHANGED <<mode, TRIVIA, env, toolCache, llm, now, alive, quiz>>
  /\ LET c == classify[body]
         session == sessionOf(c.sessionId)
     IN  IF c.rawText = <<>>
         THEN /\ Respond(r, Reply("greeting", <<>>, "", 0))
              /\ NoMcp /\ UNCHANGED <<sessions, hist>>
         ELSE IF session.active /\ c.isAnswerChoice
         THEN /\ sessions' = [sessions EXCEPT ![c.sessionId] = answered(session)]
              /\ hist' = [hist EXCEPT ![c.sessionId] = "answered"]
              /\ Respond(r, grade(session, c.text))
              /\ NoMcp
         ELSE IF c.isTriviaRequest
         THEN /\ TriviaRule(r, c.sessionId, session)
              /\ NoMcp
         ELSE /\ sessions' = [sessions EXCEPT ![c.sessionId] = session]
              /\ UNCHANGED hist
              /\ IF c.isVideoRequest
                 THEN /\ NoMcp
                      /\ IF env.video = <<>>
                         THEN Respond(r, Reply("not_enabled", <<>>, "", 0))
                         ELSE Await(r, c.sessionId, c.rawText, "video")
                 ELSE IF c.isESPNStatsRequest THEN StatsBranch(r, "espn", env.espn, c)
                 ELSE IF c.isCFBDHistoryRequest THEN StatsBranch(r, "cfbd", env.cfbd, c)
                 ELSE Respond(r, Reply("help", <<>>, "", 0)) /\ NoMcp

\* app.post("/chat") of part_000 (rule-routed, with the session heartbeat
\* and the tool cache), up to the first await
ChatCached(r, body) ==
  /\ mode = "cached" /\ Accept(r, body)
  /\ UNCHANGED <<mode, TRIVIA, env, toolCache, llm, now, alive, quiz>>
  /\ LET c == classify[body]
         session == [sessionOf(c.sessionId) EXCEPT !.lastSeen = now]
     IN  IF c.rawText = <<>>
         THEN /\ Respond(r, Reply("greeting", <<>>, "", 0))
              /\ NoMcp /\ UNCHANGED <<sessions, hist>>
         ELSE IF session.active /\ c.isAnswerChoice
         THEN /\ sessions' = [sessions EXCEPT ![c.sessionId] = answered(session)]
              /\ hist' = [hist EXCEPT ![c.sessionId] = "answered"]
              /\ Respond(r, grade(session, c.text))
              /\ NoMcp
         ELSE IF c.isTriviaRequest
         THEN /\ NoMcp
              /\ \E mcq \in randomMCQ(TRIVIA) :
                   /\ sessions' = [sessions EXCEPT ![c.sessionId] =
                          asked(session, mcq)]
                   /\ hist' = [hist EXCEPT ![c.sessionId] = "issued"]
                   /\ Respond(r, Reply("question", <<>>, "", mcq.n))
         ELSE /\ sessions' = [sessions EXCEPT ![c.sessionId] = session]
              /\ UNCHANGED hist
              /\ IF c.isESPNStatsRequest THEN StatsBranch(r, "espn", env.espn, c)
                 ELSE IF c.isCFBDHistoryRequest THEN StatsBranch(r, "cfbd", env.cfbd, c)
                 ELSE IF c.isVideoRequest
                 THEN /\ NoMcp
                      /\ Await(r, c.sessionId, c.rawText, "video")
                 ELSE Respond(r, Reply("help", <<>>, "", 0)) /\ NoMcp

(***************************************************************************)
(* The continuations of the rule-routed handlers                           *)
(***************************************************************************)
\* the request r waits at the await named pc
At(r, pc) == alive /\ req[r].pc = pc

\* res.json({ response: ... }) of a handler that went through an await
Finish(r, reply) ==
  req' = [req EXCEPT ![r] = [IdleReq EXCEPT !.pc = "done", !.reply = reply,
                                            !.sent = req[r].sent + 1, !.status = 200]]

\* behaviours of the video service: the 7 s abort (part_001 only), a network
\* error, a non-2xx answer, a body that is not JSON, no results, some results
VideoKinds == {"abort", "neterror", "non2xx", "badjson", "none", "some"}

\* the number of videos asked for: limit=3
VideoLimit == 3

\* the video branch after await fetch(fetchUrl, ...)
VideoRespond(r, kind) ==
  /\ At(r, "video") /\ kind \in VideoKinds
  /\ kind = "abort" => mode = "rule"
  /\ env.video = <<>> => kind = "neterror"
  /\ UNCHANGED <<mode, TRIVIA, env, sessions, toolCache, mcp, llm, now, alive, arrivals, lastReq, owner, listCalls, hist, quiz>>
  /\ IF kind \in {"abort", "neterror", "badjson"}
     THEN Finish(r, Reply("error", <<>>, "", 0))
     ELSE IF mode = "rule"
     THEN CASE kind = "non2xx" -> Finish(r, Reply("video_trouble", <<>>, "", 0))
            [] kind = "none" -> Finish(r, Reply("video_none", <<>>, "", 0))
            [] kind = "some" -> Finish(r, Reply("video_list", <<>>, "", VideoLimit))
     ELSE Finish(r, Reply("video_list", <<>>, "", IF kind = "some" THEN VideoLimit ELSE 0))

\* getMcpTools answered: in the cached variant toolCache.set(baseUrl, tools);
\* then tool selection, the candidate list, and the first tools/call
ListRespond(r, kind, tools) ==
  /\ At(r, "list") /\ kind \in ListKinds /\ tools \in SelectLists
  /\ kind = "tools" <=> tools # <<>>
  /\ tools = ToolsEspn => mcp[r].base = "espn"
  /\ tools = ToolsCfbd => mcp[r].base = "cfbd"
  /\ toolCache' = IF mode = "cached"
                  THEN [toolCache EXCEPT ![mcp[r].base] = [present |-> TRUE, tools |-> getMcpTools(kind, tools)]]
                  ELSE toolCache
  /\ mcp' = [mcp EXCEPT ![r] = mcpSelected(mcp[r].base, req[r].text, getMcpTools(kind, tools))]
  /\ req' = [req EXCEPT ![r].pc = "call"]
  /\ UNCHANGED <<mode, TRIVIA, env, sessions, llm, now, alive, arrivals, lastReq, owner, listCalls, hist, quiz>>

\* the answer carries the "no data found" sentinel
sentinelAnswer(resp) ==
  /\ resp.ok /\ ~resp.json.error /\ ~extractThrows(resp.json)
  /\ Includes(FirstTruthy(<<extractMcpText(resp.json), resp.text>>), Sentinel)

\* one attempt of callMcp for every remote behaviour: what it leads to, and
\* whether the answer carried the sentinel
attempt ==
  [kind \in CallKinds |->
     LET resp == fetchJson(CallBehaviour[kind])
         o == attemptOutcome(resp)
     IN  [do |-> o.do, text |-> o.text, sentinel |-> sentinelAnswer(resp)]]

\* a faulty handler: the text of callMcp's result is sent whatever its ok flag
mcpReplyAlways(ok, text) == Reply("stats", text, "", 0)

\* the reply of the handler for the result of callMcp
mcpReply(ok, text) ==
  IF ok THEN Reply("stats", text, "", 0) ELSE Reply("provider_failure", <<>>, "", 0)

\* one iteration of the retry loop of callMcp: the tools/call for candidate i
\* answered; then the next candidate is sent, or callMcp returns and the
\* handler replies
CallRespond(r, kind) ==
  /\ At(r, "call") /\ kind \in CallKinds
  /\ UNCHANGED <<mode, TRIVIA, env, sessions, toolCache, llm, now, alive, arrivals, lastReq, owner, listCalls, hist, quiz>>
  /\ LET o == attempt[kind]
         m == [mcp[r] EXCEPT !.last = kind, !.before = mcp[r].allSentinel,
                              !.allSentinel = @ /\ o.sentinel]
     IN  CASE o.do = "throw" ->
                /\ mcp' = [mcp EXCEPT ![r] = m]
                /\ Finish(r, Reply("error", <<>>, "", 0))
           [] o.do = "return" ->
                /\ mcp' = [mcp EXCEPT ![r] = m]
                /\ Finish(r, mcpReply(TRUE, o.text))
           [] o.do = "next" /\ mcp[r].i < mcp[r].n ->
                /\ mcp' = [mcp EXCEPT ![r] = [m EXCEPT !.i = @ + 1, !.calls = @ + 1]]
                /\ UNCHANGED req
           [] o.do = "next" /\ mcp[r].i >= mcp[r].n ->
                /\ mcp' = [mcp EXCEPT ![r] = m]
                /\ Finish(r, mcpReply(FALSE, <<>>))

\* the period of the session sweep, in minutes
SweepIntervalMin == 5

\* the idle window of a session, in minutes
IdleWindowMin == 15

\* a faulty expiry test: a session is removed at the first sweep after its
\* last message
expiredEarly(s, at) ==
  at - (IF s.lastSeen # 0 THEN s.lastSeen ELSE at) > 0

\* a faulty expiry test: the idle window is counted in sweep intervals
expiredLate(s, at) ==
  at - (IF s.lastSeen # 0 THEN s.lastSeen ELSE at) > IdleWindowMin

\* now - (s.lastSeen || now) > 15 * 60 * 1000 at the sweep that runs at the
\* time at, the clock counting sweep intervals
expired(s, at) ==
  (at - (IF s.lastSeen # 0 THEN s.lastSeen ELSE at)) * SweepIntervalMin > IdleWindowMin

\* the setInterval callback of part_000: a sweep interval has passed, and
\* every session idle for longer than the window is deleted
Sweep ==
  /\ mode = "cached" /\ alive /\ now < MaxTime
  /\ now' = now + 1
  /\ sessions' = [id \in SessionIds |->
                    IF sessions[id].present /\ expired(sessions[id], now + 1) THEN NoSession ELSE sessions[id]]
  /\ UNCHANGED <<mode, TRIVIA, env, toolCache, req, mcp, llm, alive, arrivals, lastReq, owner, listCalls, hist, quiz>>
(***************************************************************************)
(* The tool-calling loop of index.js                                       *)
(***************************************************************************)
Range(f) == {f[x] : x \in DOMAIN f}

Call(name, args) == [name |-> name, args |-> args]

\* the tool_calls a model answer can carry: one call or several, a function
\* that is not registered, arguments that are not JSON
CallLists ==
  { <<Call("get_trivia_question", "ok")>>,
    <<Call("search_videos", "ok")>>,
    <<Call("get_espn_stats", "ok"), Call("get_cfbd_history", "ok")>>,
    <<Call("get_weather", "ok")>>,
    <<Call("get_trivia_question", "bad")>> }

Answer(kind, calls) == [kind |-> kind, calls |-> calls]

\* the answers of the model: the call fails, a message with content, a
\* message without content, a message with tool calls
LlmAnswers ==
  {Answer("error", <<>>), Answer("text", <<>>), Answer("null", <<>>)}
    \cup {Answer("calls", c) : c \in CallLists}

\* the result of a tool function: its kind ("question", "data", "error",
\* "not_configured", "unknown", or "throw" when the call throws), and for a
\* question what the handler stores of it
ToolOut(result, correctIndex, explanation, n) ==
  [result |-> result, correctIndex |-> correctIndex, explanation |-> explanation, n |-> n]

NoOut(result) == ToolOut(result, -1, <<>>, 0)

\* async function getTriviaQuestion(): its results
getTriviaQuestion ==
  IF Len(TRIVIA) = 0 THEN {NoOut("error")}
  ELSE { IF m.unusable THEN NoOut("error")
         ELSE ToolOut("question", m.correctIndex, m.explanation, m.n) : m \in randomMCQ(TRIVIA) }

\* a faulty provider function: the call is made whether or not the URL is set
providerResultsUnchecked(url, mayThrow) ==
  {NoOut("data"), NoOut("error")} \cup (IF mayThrow THEN {NoOut("throw")} ELSE {})

\* a provider function (searchVideos, getESPNStats, getCFBDHistory): its results
providerResults(url, mayThrow) ==
  IF url = <<>> THEN {NoOut("not_configured")}
  ELSE {NoOut("data"), NoOut("error")}
       \cup (IF mayThrow THEN {NoOut("throw")} ELSE {})

\* the body of the for loop over tool_calls: JSON.parse of the arguments and
\* the switch on the function name
toolOutcomes(call) ==
  IF call.args = "bad" THEN {NoOut("throw")}
  ELSE CASE call.name = "get_trivia_question" -> getTriviaQuestion
         [] call.name = "search_videos" -> providerResults(env.video, FALSE)
         [] call.name = "get_espn_stats" -> providerResults(env.espn, TRUE)
         [] call.name = "get_cfbd_history" -> providerResults(env.cfbd, TRUE)
         [] OTHER -> {NoOut("unknown")}

\* the message that carries the system prompt
SystemTurn == Turn("system", <<>>, "", "")

\* the messages of the model call request r is waiting for: the first call
\* of a request sends [system, ...session.chat], a follow-up call session.chat
messages(r) ==
  IF llm[r].followUp THEN sessions[req[r].sid].chat
  ELSE <<SystemTurn>> \o sessions[req[r].sid].chat

\* session.chat.push(...)
pushed(session, turn) == [session EXCEPT !.chat = Append(@, turn)]

\* await openai.chat.completions.create(...) answered, up to the next await;
\* the loop of the code has no limit, and rounds is how many of its rounds
\* are followed
LlmAnswered(r, answer, rounds) ==
  /\ At(r, "llm") /\ answer \in LlmAnswers
  /\ UNCHANGED <<mode, TRIVIA, env, toolCache, mcp, now, alive, arrivals, lastReq, owner, listCalls, hist, quiz>>
  /\ LET sid == req[r].sid
     IN  CASE answer.kind = "error" ->
                /\ Finish(r, Reply("error", <<>>, "", 0))
                /\ UNCHANGED <<sessions, llm>>
           [] answer.kind \in {"text", "null"} ->
                /\ sessions' = [sessions EXCEPT ![sid] = pushed(@, Turn("assistant", <<>>, "", ""))]
                /\ Finish(r, Reply(IF answer.kind = "text" THEN "llm" ELSE "llm_null", <<>>, "", 0))
                /\ UNCHANGED llm
           [] answer.kind = "calls" ->
                /\ llm[r].loops < rounds
                /\ sessions' = [sessions EXCEPT ![sid] = pushed(@, Turn("assistant", [i \in 1..Len(answer.calls) |-> answer.calls[i].name], "", ""))]
                /\ llm' = [llm EXCEPT ![r] = [loops |-> @.loops + 1, pending |-> answer.calls, followUp |-> TRUE, shown |-> @.shown]]
                /\ req' = [req EXCEPT ![r].pc = "tools"]

LlmRespond(r, answer) == LlmAnswered(r, answer, MaxLoops)

\* a faulty loop over tool_calls: the calls are executed last to first
ToolStepLast(r, call, out) ==
  /\ At(r, "tools") /\ call = llm[r].pending[Len(llm[r].pending)] /\ out \in toolOutcomes(call)
  /\ UNCHANGED <<mode, TRIVIA, env, toolCache, mcp, now, alive, arrivals, lastReq, owner, listCalls, quiz, hist>>
  /\ out.result \notin {"throw", "question"}
  /\ sessions' = [sessions EXCEPT ![req[r].sid] = pushed(@, Turn("tool", <<>>, call.name, out.result))]
  /\ llm' = [llm EXCEPT ![r].pending = SubSeq(@, 1, Len(@) - 1)]
  /\ req' = [req EXCEPT ![r].pc = IF Len(llm[r].pending) = 1 THEN "llm" ELSE "tools"]

\* one tool call of the pending tool_calls is executed and its tool turn is
\* pushed; after the last one the follow-up model call is sent
ToolStep(r, call, out) ==
  /\ At(r, "tools") /\ call = Head(llm[r].pending) /\ out \in toolOutcomes(call)
  /\ UNCHANGED <<mode, TRIVIA, env, toolCache, mcp, now, alive, arrivals, lastReq, owner, listCalls, quiz>>
  /\ LET sid == req[r].sid
         session == IF out.result = "question"
                    THEN asked(sessions[sid], out)
                    ELSE sessions[sid]
     IN  IF out.result = "throw"
         THEN /\ Finish(r, Reply("error", <<>>, "", 0))
              /\ UNCHANGED <<sessions, llm, hist>>
         ELSE /\ sessions' = [sessions EXCEPT ![sid] = pushed(session, Turn("tool", <<>>, call.name, out.result))]
              /\ hist' = IF out.result = "question" THEN [hist EXCEPT ![sid] = "issued"] ELSE hist
              /\ llm' = [llm EXCEPT ![r].pending = Tail(@),
                                     ![r].shown = IF out.result = "question" THEN out.correctIndex ELSE @]
              /\ req' = [req EXCEPT ![r].pc = IF Len(llm[r].pending) = 1 THEN "llm" ELSE "tools"]

(***************************************************************************)
(* The specification of the chat service: the requests of one client, who  *)
(* sends the next request when the last one is over; they all take the     *)
(* first request slot                                                      *)
(***************************************************************************)
\* the behaviours of the providers on tools/call while the chat service is
\* checked as a whole: a valid result, and a result that makes extractMcpText
\* throw (the behaviours that make callMcp retry are those of SpecMcp)
ChatCallKinds == {"valid", "nullItem"}

\* the answers of the model while the chat service is checked as a whole
ChatLlmAnswers ==
  { Answer("error", <<>>), Answer("text", <<>>),
    Answer("calls", <<Call("get_trivia_question", "ok")>>),
    Answer("calls", <<Call("search_videos", "ok")>>),
    Answer("calls", <<Call("get_trivia_question", "bad")>>) }

Next ==
  \/ \E body \in Bodies : ChatModel(1, body)
  \/ \E body \in Bodies : ChatRule(1, body)
  \/ \E body \in Bodies : ChatCached(1, body)
  \/ \E kind \in VideoKinds : VideoRespond(1, kind)
  \/ \E kind \in ListKinds, tools \in ToolLists : ListRespond(1, kind, tools)
  \/ \E kind \in ChatCallKinds : CallRespond(1, kind)
  \/ \E answer \in ChatLlmAnswers : LlmRespond(1, answer)
  \/ \E call \in UNION {Range(a.calls) : a \in ChatLlmAnswers} :
       \E out \in toolOutcomes(call) : ToolStep(1, call, out)
  \/ Sweep

Spec == Init /\ [][Next]_vars

(***************************************************************************)
(* The chat service with the timers of its outbound calls: a call made     *)
(* with an abort timer is answered or aborted, so the handler waiting for  *)
(* it goes on. The timers are those of fetchJson (tools/list, tools/call   *)
(* and the provider functions of the tool loop) and of the video search of *)
(* index.js and part_001; the model call and the video search of part_000  *)
(* have none.                                                              *)
(***************************************************************************)
TimedResponse ==
  \/ \E kind \in VideoKinds : mode = "rule" /\ VideoRespond(1, kind)
  \/ \E kind \in ListKinds, tools \in ToolLists : ListRespond(1, kind, tools)
  \/ \E kind \in ChatCallKinds : CallRespond(1, kind)
  \/ \E call \in UNION {Range(a.calls) : a \in ChatLlmAnswers} :
       \E out \in toolOutcomes(call) : ToolStep(1, call, out)

SpecTimed == Init /\ [][Next]_vars /\ WF_vars(TimedResponse)

(***************************************************************************)
(* The specification of concurrent requests: two requests of index.js in   *)
(* flight at once, for one session or for two, their awaits answered in    *)
(* any order                                                               *)
(***************************************************************************)
PairBodies ==
  {b \in Bodies : /\ classify[b].rawText \in {<<"a">>, <<"h","e","l","l","o">>}
                  /\ classify[b].alias = "message"
                  /\ ~classify[b].logThrows /\ classify[b].school # "none"}

PairAnswers ==
  { Answer("text", <<>>), Answer("calls", <<Call("get_trivia_question", "ok")>>) }

InitPair ==
  /\ mode = "model" /\ TRIVIA = BankFour /\ env = EnvAll
  /\ Loaded

NextPair ==
  \/ \E r \in ReqIds, body \in PairBodies : ChatModel(r, body)
  \/ \E r \in ReqIds, answer \in PairAnswers : LlmRespond(r, answer)
  \/ \E r \in ReqIds, call \in UNION {Range(a.calls) : a \in PairAnswers} :
       \E out \in toolOutcomes(call) : ToolStep(r, call, out)

SpecPair == InitPair /\ [][NextPair]_vars

(***************************************************************************)
(* The specification of the rule chains: the handlers of part_001 and of   *)
(* part_000 with every provider configured, and texts that carry the       *)
(* keywords of several intents                                             *)
(***************************************************************************)
InitRoute ==
  /\ mode \in {"rule", "cached"} /\ TRIVIA = BankFour /\ env = EnvAll
  /\ Loaded

NextRoute ==
  \/ \E body \in RouteBodies : ChatRule(1, body)
  \/ \E body \in RouteBodies : ChatCached(1, body)
  \/ \E kind \in VideoKinds : VideoRespond(1, kind)
  \/ \E kind \in ListKinds, tools \in ToolLists : ListRespond(1, kind, tools)
  \/ \E kind \in ChatCallKinds : CallRespond(1, kind)

SpecRoute == InitRoute /\ [][NextRoute]_vars

(***************************************************************************)
(* The specification of concurrent discovery: two stats or history         *)
(* requests of part_000 in flight at once, their tools/list and tools/call *)
(* calls answered in any order                                             *)
(***************************************************************************)
RaceBodies ==
  {BodyOf("message", s, "", "") : s \in {<<"s","t","a","t","s">>, <<"h","i","s","t","o","r","y">>}}

InitRace ==
  /\ mode = "cached" /\ TRIVIA = BankEmpty /\ env = EnvAll
  /\ Loaded

NextRace ==
  \/ \E r \in ReqIds, body \in RaceBodies : ChatCached(r, body)
  \/ \E r \in ReqIds, kind \in ListKinds, tools \in ToolLists : ListRespond(r, kind, tools)
  \/ \E r \in ReqIds, kind \in ChatCallKinds : CallRespond(r, kind)

SpecRace == InitRace /\ [][NextRace]_vars

(***************************************************************************)
(* The specification of the tool-calling loop: one request of index.js      *)
(* against a model that may ask for tool calls in every answer              *)
(***************************************************************************)
LoopBodies ==
  {b \in Bodies : /\ classify[b].rawText = <<"h","e","l","l","o">>
                  /\ classify[b].alias = "message"
                  /\ ~classify[b].logThrows /\ classify[b].school # "none"}

LoopAnswers ==
  { Answer("error", <<>>), Answer("text", <<>>),
    Answer("calls", <<Call("get_espn_stats", "ok"), Call("get_cfbd_history", "ok")>>),
    Answer("calls", <<Call("get_weather", "ok")>>) }

InitLoop ==
  /\ mode = "model" /\ TRIVIA = BankFour /\ env = EnvAll
  /\ Loaded

NextLoop ==
  \/ \E body \in LoopBodies : arrivals = 0 /\ ChatModel(1, body)
  \/ \E answer \in LoopAnswers : LlmAnswered(1, answer, MaxRounds)
  \/ \E call \in UNION {Range(a.calls) : a \in LoopAnswers} :
       \E out \in toolOutcomes(call) : ToolStep(1, call, out)

SpecLoop == InitLoop /\ [][NextLoop]_vars

(***************************************************************************)
(* The specification of the tool-call client: stats and history requests   *)
(* handled one at a time, against every behaviour of the provider          *)
(***************************************************************************)
InitMcp ==
  /\ mode \in {"rule", "cached"} /\ TRIVIA = BankEmpty /\ env = EnvAll
  /\ Loaded

NextMcp ==
  \/ \E body \in StatsBodies : ChatRule(1, body)
  \/ \E body \in StatsBodies : ChatCached(1, body)
  \/ \E kind \in ListKinds, tools \in ToolLists : ListRespond(1, kind, tools)
  \/ \E kind \in CallKinds : CallRespond(1, kind)

SpecMcp == InitMcp /\ [][NextMcp]_vars

\* the same client against endpoints that answer tools/list with any tool list
NextSelect ==
  \/ \E body \in SelectBodies : ChatRule(1, body)
  \/ \E body \in SelectBodies : ChatCached(1, body)
  \/ \E kind \in ListKinds, tools \in SelectLists : ListRespond(1, kind, tools)
  \/ \E kind \in CallKinds : CallRespond(1, kind)

SpecSelect == InitMcp /\ [][NextSelect]_vars

(***************************************************************************)
(* The specification of the trivia engine: questions drawn from a bank     *)
(***************************************************************************)
\* getTriviaQuestion() / buildMCQ(q) for the record k and a shuffle outcome:
\* the question emitted, or none
NextQuestion(k, mcq) ==
  /\ k \in 1..Len(TRIVIA) /\ mcq \in mcqTable[bankRead(TRIVIA)][k]
  /\ quiz' = IF unusable(mcq) THEN NoQuiz
             ELSE [asked |-> TRUE, record |-> TRIVIA[k], question |-> mcq.question,
                   options |-> mcq.options, correctIndex |-> mcq.correctIndex]
  /\ UNCHANGED <<mode, TRIVIA, env, sessions, toolCache, req, mcp, llm, now, alive, arrivals, lastReq, owner, listCalls, hist>>

InitTrivia ==
  /\ mode \in {"model", "rule"} /\ TRIVIA \in Banks \ {BankEmpty} /\ env = EnvNone
  /\ Loaded

NextTrivia ==
  \E k \in 1..Len(TRIVIA) : \E mcq \in mcqTable[bankRead(TRIVIA)][k] : NextQuestion(k, mcq)

SpecTrivia == InitTrivia /\ [][NextTrivia]_vars

(***************************************************************************)
(* Properties                                                              *)
(***************************************************************************)
\* a request is accepted in this step
Arrival == arrivals' = arrivals + 1

\* a text trimmed and lower-cased
Letter(t) == ToLower(Trim(t))

AnswerLetters == {<<"a">>, <<"b">>, <<"c">>, <<"d">>}

\* the position of an answer letter: a=0, b=1, c=2, d=3
LetterPos(l) == CHOOSE k \in 0..3 : <<<<"a">>, <<"b">>, <<"c">>, <<"d">>>>[k + 1] = l

Graded == {"correct", "not_quite"}

\* the handler of the request accepted in this step got to read its text
Read == req'[1].pc # "lost"

Norm(s) == ToLower(CollapseWs(Trim(s)))

\* C4: multiple-choice well-formedness. Every question emitted for a record
\* of a bank with at least 4 distinct normalized answers has exactly 4
\* options, exactly one of them normalizes to the correct answer, and
\* correctIndex is its position.
WellFormedMCQ ==
  quiz.asked /\ Cardinality({Norm(TRIVIA[k].answer) : k \in 1..Len(TRIVIA)}) >= 4
    => /\ Len(quiz.options) = 4
       /\ Cardinality({j \in 1..Len(quiz.options) : Norm(quiz.options[j]) = Norm(quiz.record.answer)}) = 1
       /\ quiz.correctIndex \in 0..(Len(quiz.options) - 1)
       /\ Norm(quiz.options[quiz.correctIndex + 1]) = Norm(quiz.record.answer)

\* a tools/call of the request in slot 1 is answered in this step
CallStep == req[1].pc = "call" /\ <<req'[1], mcp'[1]>> # <<req[1], mcp[1]>>

\* the text of the valid result, as callMcp returns it
ValidText == <<"O","U"," ","3","5",","," ","T","e","x","a","s"," ","1","0">>

\* C5: the retry stops at the first usable result. While every candidate
\* before the k-th was answered with the sentinel: a sentinel answer to the
\* k-th is not returned, the next candidate is sent if there is one; a valid
\* answer to the k-th is returned as the reply, with k calls made; and a
\* request that is over makes no further call.
RetryStops ==
  [][ /\ CallStep /\ mcp[1].allSentinel /\ mcp'[1].last = "sentinel"
        => /\ req'[1].reply.kind # "stats"
           /\ mcp[1].i < mcp[1].n =>
                req'[1].pc = "call" /\ mcp'[1].i = mcp[1].i + 1 /\ mcp'[1].calls = mcp[1].calls + 1
      /\ CallStep /\ mcp[1].allSentinel /\ mcp'[1].last = "valid"
        => /\ req'[1].pc = "done"
           /\ req'[1].reply = Reply("stats", ValidText, "", 0)
           /\ mcp'[1].i = mcp[1].i /\ mcp'[1].calls = mcp[1].i
      /\ req[1].pc = "done" /\ ~Arrival => mcp'[1] = mcp[1] ]_vars

\* C5: two sentinel answers, then the valid result of the third candidate
\* returned with a fourth candidate left unsent
RetryStopsSeen ==
  /\ req[1].pc = "done" /\ req[1].reply.kind = "stats"
  /\ mcp[1].last = "valid" /\ mcp[1].before /\ mcp[1].calls = 3
  /\ mcp[1].n >= 4

\* the answers that are no usable result: a timeout, a non-2xx status, an
\* error payload, an empty answer, the sentinel
FailKinds == {"timeout", "non2xx", "rpcerror", "empty", "blank", "emptyObject", "sentinel", "sentinelDump"}

\* C6: retry exhaustion. The candidates are sent one at a time in list order;
\* an attempt without a usable result is followed by the next candidate, and
\* after the last one callMcp fails and the handler sends the
\* provider-failure reply.
RetryExhausts ==
  [][ /\ req'[1].pc = "call" => mcp'[1].calls = mcp'[1].i /\ mcp'[1].i \in 1..mcp'[1].n
      /\ CallStep /\ mcp'[1].last \in FailKinds
        => IF mcp[1].i < mcp[1].n
           THEN req'[1].pc = "call" /\ mcp'[1].i = mcp[1].i + 1
           ELSE /\ req'[1].pc = "done" /\ req'[1].sent = 1 /\ req'[1].status = 200
                /\ req'[1].reply.kind = "provider_failure"
                /\ mcp'[1].calls = mcp[1].n ]_vars

\* C6: every one of several candidates was answered with the sentinel, and
\* the provider-failure reply was sent
RetryExhaustsSeen ==
  /\ req[1].pc = "done" /\ req[1].reply.kind = "provider_failure"
  /\ mcp[1].n >= 3 /\ mcp[1].calls = mcp[1].n /\ mcp[1].allSentinel

\* C7: discovery is cached per endpoint: at most one tools/list call is
\* issued for an endpoint in a process lifetime.
DiscoveryOnce == \A e \in Endpoints : listCalls[e] <= 1

\* C8: session eviction. The sweep removes every session that has been idle
\* for longer than the window; the next request of a removed session gets a
\* fresh one, and its answer letter is not graded against the old question.
SessionEviction ==
  [][ /\ now' = now + 1
        => \A id \in SessionIds :
             sessions[id].present /\ (now' - sessions[id].lastSeen) * SweepIntervalMin > IdleWindowMin
               => sessions'[id] = NoSession
      /\ Arrival /\ hist[lastReq'.sid] = "issued" /\ ~sessions[lastReq'.sid].present
                 /\ Letter(lastReq'.text) \in AnswerLetters /\ Read
        => /\ req'[1].reply.kind \notin Graded
           /\ sessions'[lastReq'.sid] = [NewSession EXCEPT !.lastSeen = now] ]_vars

\* C8: a question was issued, the session was swept, and the answer letter
\* that came then met a fresh session
SessionEvictionSeen ==
  /\ mode = "cached"
  /\ hist[lastReq.sid] = "issued" /\ Letter(lastReq.text) \in AnswerLetters
  /\ req[1].pc = "done" /\ req[1].reply.kind = "help"
  /\ sessions[lastReq.sid].present /\ ~sessions[lastReq.sid].active

\* C9: failures never leak. The process keeps running, no request is left
\* without a response, and a request that is over got exactly one response,
\* an HTTP success with a text.
NoLeak ==
  /\ alive
  /\ \A r \in ReqIds :
       /\ req[r].pc # "lost"
       /\ req[r].pc = "done" =>
            req[r].sent = 1 /\ req[r].status = 200 /\ req[r].reply.kind \notin {"none", "llm_null"}

\* C10: input aliases. Whatever the alias the text came under, the handler
\* extracts it (the text trimmed) and the request is answered.
AliasesAnswered ==
  arrivals > 0 /\ lastReq.alias \in Aliases
    => /\ req[1].pc # "lost"
       /\ req[1].pc \notin {"idle", "done", "lost"} => req[1].text = Trim(lastReq.text)

TextUrl(t) ==
  CASE t = <<"v","i","d","e","o">> -> env.video
    [] t = <<"s","t","a","t","s">> -> env.espn
    [] t = <<"h","i","s","t","o","r","y">> -> env.cfbd

\* the provider URL a tool function of the model-routed handler is served from
FunctionUrl(f) ==
  CASE f = "search_videos" -> env.video
    [] f = "get_espn_stats" -> env.espn
    [] f = "get_cfbd_history" -> env.cfbd

FourOptions ==
  quiz.asked => Len(quiz.options) = NumOptions

\* C14: bounded tool-calling loop. The loop runs at most a fixed number of
\* rounds for one user message, the 5 rounds the specification names.
LoopLimit ==
  \A r \in ReqIds : llm[r].loops <= 5

\* the functions the switch of the loop has a case for
Registered == {"get_trivia_question", "search_videos", "get_espn_stats", "get_cfbd_history"}

\* the turns of a chat from position i on that are tool turns, up to the
\* first turn that is not
RECURSIVE ToolRun(_, _)
ToolRun(chat, i) ==
  IF i > Len(chat) \/ chat[i].role # "tool" THEN <<>>
  ELSE <<chat[i]>> \o ToolRun(chat, i + 1)

\* the chat of a session keeps the order of the protocol: the tool turns
\* after an assistant turn with tool_calls answer its calls one by one, in
\* the order of the calls, an unregistered function with an error result and
\* no other so; a tool turn stands nowhere else
Ordered(chat) ==
  /\ \A i \in 1..Len(chat) :
        chat[i].role = "assistant" /\ chat[i].calls # <<>> =>
          LET run == ToolRun(chat, i + 1)
          IN  /\ Len(run) <= Len(chat[i].calls)
              /\ \A j \in 1..Len(run) :
                    /\ run[j].name = chat[i].calls[j]
                    /\ (run[j].result = "unknown") = (run[j].name \notin Registered)
  /\ \A i \in 1..Len(chat) :
        chat[i].role = "tool" =>
          /\ i > 1
          /\ \/ chat[i - 1].role = "tool"
             \/ chat[i - 1].role = "assistant" /\ chat[i - 1].calls # <<>>

\* every model answer with tool_calls in the chat has had all its calls
\* answered
Settled(chat) ==
  \A i \in 1..Len(chat) :
    chat[i].role = "assistant" /\ chat[i].calls # <<>> =>
      Len(ToolRun(chat, i + 1)) = Len(chat[i].calls)

\* C15: tool-calling protocol order. The calls of a model answer are executed
\* in the order asked, each leaving one tool turn after the assistant turn
\* that asked for it, an unknown function leaving an error result; a model
\* call is outstanding only when every call so far has its tool turn; and a
\* request is answered with the model's text exactly by the step in which
\* the model answers without tool calls, that answer being the last turn.
ProtocolOrder ==
  [][ /\ \A s \in SessionIds : Ordered(sessions'[s].chat)
      /\ req'[1].pc = "llm" => Settled(sessions'[req'[1].sid].chat)
      /\ req[1].pc = "tools" /\ req'[1].pc # "done" =>
            /\ llm[1].pending # <<>>
            /\ sessions'[req[1].sid].chat =
                  Append(sessions[req[1].sid].chat,
                         Turn("tool", <<>>, Head(llm[1].pending).name,
                              sessions'[req[1].sid].chat[Len(sessions'[req[1].sid].chat)].result))
      /\ req[1].pc = "llm" /\ req'[1].pc = "tools" =>
            /\ llm'[1].pending # <<>>
            /\ sessions'[req[1].sid].chat =
                  Append(sessions[req[1].sid].chat,
                         Turn("assistant", [i \in 1..Len(llm'[1].pending) |-> llm'[1].pending[i].name], "", ""))
      /\ req[1].pc = "llm" /\ req'[1].pc = "done" /\ req'[1].reply.kind # "error" =>
            /\ req'[1].reply.kind \in {"llm", "llm_null"}
            /\ sessions'[req[1].sid].chat =
                  Append(sessions[req[1].sid].chat, Turn("assistant", <<>>, "", ""))
      /\ req[1].pc = "tools" /\ req'[1].pc = "done" => req'[1].reply.kind = "error" ]_vars

\* C15: a request was answered with the model's text after a round of two
\* calls and a round with an unknown function
ProtocolOrderSeen ==
  /\ req[1].pc = "done" /\ req[1].reply.kind = "llm"
  /\ \E s \in SessionIds :
       LET chat == sessions[s].chat
       IN  /\ \E i \in 1..Len(chat) : chat[i].calls = <<"get_espn_stats", "get_cfbd_history">>
           /\ \E i \in 1..Len(chat) : chat[i].role = "tool" /\ chat[i].result = "unknown"

\* no request is being handled
Quiet == \A r \in ReqIds : req[r].pc \in {"idle", "done", "lost"}

\* C16: bounded chat history. Between requests the chat of every session
\* holds at most 10 turns, of whatever role.
HistoryBound ==
  Quiet => \A s \in SessionIds : Len(sessions[s].chat) <= HistoryLimit

\* C17: pending-question invariant. A session with a pending question has
\* its correctIndex in 0..3, and within the options of the question it was
\* asked.
PendingQuestion ==
  \A s \in SessionIds :
    sessions[s].active =>
      /\ sessions[s].correctIndex \in 0..(NumOptions - 1)
      /\ sessions[s].correctIndex < sessions[s].options

\* C17: a question is pending whose correct option is the last of four
PendingQuestionSeen ==
  \E s \in SessionIds :
    /\ sessions[s].active /\ hist[s] = "issued"
    /\ sessions[s].correctIndex = 3 /\ sessions[s].options = 4

\* the request in slot 1 waits for an outbound call
Waiting == req[1].pc \in {"llm", "tools", "video", "list", "call"}

\* C18: bounded response. A request that waits for an outbound call is
\* eventually replied to, whatever the remote side does.
BoundedResponse ==
  Waiting ~> req[1].pc = "done"

\* the same for the rule-routed handler of part_001, all of whose outbound
\* calls carry a timer
BoundedResponseRule ==
  mode = "rule" /\ Waiting ~> req[1].pc = "done"

\* the request in slot r takes a step: it is accepted, or its handler goes
\* on after an await
Acting(r) ==
  \/ req'[r] # req[r] /\ req'[r] # IdleReq
  \/ llm'[r] # llm[r] /\ llm'[r] # IdleLlm

\* C19: session isolation. A step of a request accepted for one session
\* identifier leaves the state stored under every other identifier as it
\* was, whatever other requests are in flight.
SessionIsolation ==
  [][ \A r \in ReqIds :
        Acting(r) =>
          \A s \in SessionIds \ {owner'[r]} : sessions'[s] = sessions[s] ]_vars

\* C19: two requests are in flight for different sessions, and a question
\* has just been stored for the one while the other waits
SessionIsolationSeen ==
  /\ owner[1] # owner[2]
  /\ req[1].pc = "llm" /\ req[2].pc = "llm"
  /\ sessions[owner[2]].active /\ ~sessions[owner[1]].active
  /\ llm[2].followUp /\ ~llm[1].followUp

\* the rule that decides for a text, by the order TriviaAnswer,
\* TriviaRequest, VideoRequest, LiveStatsRequest, HistoricalRequest,
\* GenericChat
FirstMatch ==
  [t \in RouteTexts, active \in BOOLEAN |->
     IF active /\ isAnswerChoice(ToLower(t)) THEN "answer"
     ELSE IF isTriviaRequest(t) THEN "trivia"
     ELSE IF isVideoRequest(t) THEN "video"
     ELSE IF isESPNStatsRequest(t) THEN "espn"
     ELSE IF isCFBDHistoryRequest(t) THEN "cfbd"
     ELSE "chat"]

\* the rule the handler took for the request it has just accepted: the
\* reply it gave at once, or the provider it called
RouteTaken ==
  CASE req'[1].reply.kind \in {"correct", "not_quite"} -> "answer"
    [] req'[1].reply.kind = "question" -> "trivia"
    [] req'[1].pc = "video" -> "video"
    [] req'[1].pc \in {"list", "call"} -> mcp'[1].base
    [] OTHER -> "chat"

\* C20: rule-order tie-break. The rule that decides for a text is the first
\* that matches in the order answer, trivia, video, live stats, history,
\* chat, and only the provider of that rule is called.
RuleOrder ==
  [][ Arrival /\ lastReq'.text \in RouteTexts
        => RouteTaken = FirstMatch[lastReq'.text, sessions[lastReq'.sid].active] ]_vars

\* the same for the handler of part_001
RuleOrderRule ==
  [][ Arrival /\ mode = "rule" /\ lastReq'.text \in RouteTexts
        => RouteTaken = FirstMatch[lastReq'.text, sessions[lastReq'.sid].active] ]_vars

\* the texts that are neither an answer letter nor a trivia request
OtherTexts ==
  { <<"v","i","d","e","o">>, <<"s","t","a","t","s">>, <<"h","i","s","t","o","r","y">>, <<"h","e","l","l","o">>, <<" "," ">> }

\* what a session holds of its pending question
Pending(session) == <<session.active, session.correctIndex, session.explain>>

\* the step executes a get_trivia_question call the model asked for
TriviaCall == req[1].pc = "tools" /\ Head(llm[1].pending).name = "get_trivia_question"

\* C21: stale pending question. A message that is neither an answer letter
\* nor a trivia request, and everything its handler does later short of a
\* get_trivia_question call the model asks for, leaves active, correctIndex
\* and the explanation of every session as they were.
StaleQuestion ==
  [][ ( /\ Arrival => lastReq'.text \in OtherTexts
        /\ now' = now
        /\ ~TriviaCall )
        => \A s \in SessionIds : Pending(sessions'[s]) = Pending(sessions[s]) ]_vars

\* C21: a message of another kind has been answered in a session whose
\* question is still pending
StaleQuestionSeen ==
  /\ lastReq.text \in OtherTexts \ {<<" "," ">>}
  /\ req[1].pc = "done" /\ req[1].reply.kind \in {"llm", "help", "not_enabled", "video_list", "stats"}
  /\ sessions[lastReq.sid].active /\ hist[lastReq.sid] = "issued"

\* C22: sweep safety. A sweep changes nothing but the session map and the
\* process goes on; a session whose last message lies within the idle window
\* is kept as it is, and a session the sweep changes is one that was idle for
\* longer than the window and is removed.
SweepSafety ==
  [][ now' = now + 1
        => /\ alive' = alive /\ req' = req
           /\ \A id \in SessionIds :
                /\ ( sessions[id].present
                     /\ (now' - sessions[id].lastSeen) * SweepIntervalMin <= IdleWindowMin )
                     => sessions'[id] = sessions[id]
                /\ sessions'[id] # sessions[id]
                     => ( /\ sessions[id].present
                          /\ (now' - sessions[id].lastSeen) * SweepIntervalMin > IdleWindowMin
                          /\ sessions'[id] = NoSession ) ]_vars

\* C22: a session with a pending question has lived through three sweeps
SweepSafetySeen ==
  /\ mode = "cached"
  /\ \E id \in SessionIds :
       /\ sessions[id].present /\ sessions[id].active
       /\ now = sessions[id].lastSeen + 3

\* C23: harmless discovery race. A discovery that ends when the cache
\* already holds the tool list of its endpoint leaves the cached list as it
\* is: the list does not depend on which write lands last.
CacheWriteSame ==
  [][ \A e \in Endpoints :
        toolCache[e].present => toolCache'[e] = toolCache[e] ]_vars

\* a cached list is read without a tools/list call
CacheHit ==
  [][ \A e \in Endpoints :
        toolCache[e].present => listCalls'[e] = listCalls[e] ]_vars

\* C24: success postcondition of callMcp. A text callMcp returned with
\* ok: true is not empty and does not contain the sentinel, and the attempt
\* that was answered last, the one it comes from, got a transport-successful
\* response without an error payload.
CallSuccess ==
  req[1].pc = "done" /\ req[1].reply.kind = "stats" =>
    /\ req[1].reply.text # <<>>
    /\ ~Includes(req[1].reply.text, Sentinel)
    /\ mcp[1].last \in CallKinds
    /\ fetchJson(CallBehaviour[mcp[1].last]).ok
    /\ ~fetchJson(CallBehaviour[mcp[1].last]).json.error

\* C24: callMcp returned the text of a plain-text answer to its second
\* candidate, the first having failed
CallSuccessSeen ==
  /\ req[1].pc = "done" /\ req[1].reply.kind = "stats"
  /\ mcp[1].last = "plain" /\ mcp[1].calls = 2 /\ ~mcp[1].before
  /\ req[1].reply.text = <<"O","U"," ","w","o","n">>

\* the remote behaviours the JSON fallback is for: a transport-successful
\* answer without error payload whose JSON body yields no text, and whose
\* dump does not contain the sentinel
DumpKinds ==
  {kind \in CallKinds :
     LET resp == fetchJson(CallBehaviour[kind])
     IN  /\ resp.ok /\ ~resp.json.isNull /\ ~resp.json.error
         /\ ~extractThrows(resp.json)
         /\ extractMcpText(resp.json) = <<>> /\ resp.text = <<>>
         /\ ~Includes(resp.json.pretty, Sentinel)}

\* C25: JSON fallback. An attempt answered with a JSON body that yields no
\* text ends callMcp with success, the reply carrying the pretty-printed body;
\* the next candidate is not sent.
JsonFallback ==
  [][ CallStep /\ mcp'[1].last \in DumpKinds
        => /\ req'[1].pc = "done"
           /\ req'[1].reply = Reply("stats", CallBehaviour[mcp'[1].last].json.pretty, "", 0)
           /\ mcp'[1].calls = mcp[1].calls ]_vars

\* the same for the bodies whose dump is longer than 20 characters
JsonFallbackLong ==
  [][ CallStep /\ mcp'[1].last \in DumpKinds
               /\ Len(CallBehaviour[mcp'[1].last].json.pretty) > MinDumpLen
        => /\ req'[1].pc = "done"
           /\ req'[1].reply = Reply("stats", CallBehaviour[mcp'[1].last].json.pretty, "", 0)
           /\ mcp'[1].calls = mcp[1].calls ]_vars

\* the argument names of the six generic payloads, in their order
GenericKeys == <<"team", "query", "text", "message", "q", "input">>

\* the candidate list p of a callMcp that selected toolName for userText: 6
\* to 66 payloads, all for the selected tool; the last six are the generic
\* ones, {team} carrying the team name and the others the text; the payloads
\* before them name a team and carry no generic text argument
Shaped(p, userText, toolName) ==
  /\ Len(p) >= Len(GenericKeys) /\ Len(p) <= 66
  /\ \A i \in 1..Len(p) : p[i].name = toolName
  /\ \A k \in 1..Len(GenericKeys) :
       LET a == p[Len(p) - Len(GenericKeys) + k].arguments
       IN  /\ DOMAIN a = {GenericKeys[k]}
           /\ k > 1 => a[GenericKeys[k]] = userText
  /\ \A i \in 1..(Len(p) - Len(GenericKeys)) :
       /\ DOMAIN p[i].arguments \cap {"team", "team1"} # {}
       /\ DOMAIN p[i].arguments \cap {"query", "text", "message", "q", "input"} = {}

\* the candidate list of callMcp for every endpoint, text, discovered tool
\* list and selection
candidates ==
  [withCfbd \in BOOLEAN, base \in Endpoints, userText \in {classify[b].rawText : b \in AllBodies}, tools \in ToolLists |->
     payloadVariations(urlOf(base), userText, selection[withCfbd, base, userText, tools].toolName)]

\* C26: candidate list shape. Whenever callMcp sends a candidate, its
\* candidate list has the shape above and the candidate sent is one of it; a
\* request issues at most one tools/list call, when it is accepted, and at
\* most 66 tools/call calls.
CandidateShape ==
  [][ /\ req'[1].pc = "call" /\ mcp'[1] # mcp[1] =>
           LET p == candidates[mode # "cached", mcp'[1].base, req'[1].text, mcp'[1].tools]
           IN  /\ Shaped(p, req'[1].text, mcp'[1].toolName)
               /\ mcp'[1].n = Len(p)
               /\ mcp'[1].i \in 1..Len(p) /\ mcp'[1].calls <= 66
      /\ \A e \in Endpoints :
           /\ listCalls'[e] \in {listCalls[e], listCalls[e] + 1}
           /\ listCalls'[e] # listCalls[e] => Arrival /\ mcp'[1].base = e ]_vars

\* C26: the last of 66 candidates has been sent
CandidateShapeSeen ==
  /\ req[1].pc = "call" /\ mcp[1].n = 66 /\ mcp[1].i = 66 /\ mcp[1].calls = 66

\* the names a /query|search|get|fetch|ask/i test accepts
GenericVerbs == {<<"q","u","e","r","y">>, <<"s","e","a","r","c","h">>, <<"g","e","t">>, <<"f","e","t","c","h">>, <<"a","s","k">>}

\* the tools the CFBD rules of callMcp select
CfbdTools ==
  { <<"g","e","t","_","t","e","a","m","_","r","e","c","o","r","d","s">>, <<"g","e","t","_","t","e","a","m","_","m","a","t","c","h","u","p">>,
    <<"g","e","t","_","r","e","c","r","u","i","t","i","n","g">>, <<"g","e","t","_","t","e","a","m","_","t","a","l","e","n","t">>,
    <<"g","e","t","_","t","e","a","m","_","r","a","n","k","i","n","g","s">> }

\* the query mentions a score and a tool named get_score was discovered
ScoreAsked(userText, tools) ==
  /\ TestAny(userText, {<<"s","c","o","r","e">>, <<"g","a","m","e">>, <<"f","i","n","a","l">>, <<"r","e","s","u","l","t">>})
  /\ <<"g","e","t","_","s","c","o","r","e">> \in Range(tools)

\* the endpoint-specific rules matched: a CFBD endpoint, in the variant that
\* has the CFBD rules, offers the CFBD tool the query calls for
EndpointMatch(m) ==
  /\ mode # "cached" /\ m.base = "cfbd"
  /\ cfbdTool(req[1].text, m.tools, DefaultTool) # DefaultTool

\* the first discovered name containing a generic verb, else the first name
GenericChoice(tools) ==
  LET hits == {i \in 1..Len(tools) : TestAny(tools[i], GenericVerbs)}
  IN  IF hits = {} THEN tools[1] ELSE tools[SetMin(hits)]

\* C27: tool selection. With at least one discovered tool the selected tool
\* is a discovered name: get_score when the query mentions a score and such
\* a tool exists; otherwise, absent an endpoint-specific match, the first
\* name containing a generic verb, else the first name. With no tool
\* discovered the selected tool is the default, query.
ToolSelection ==
  req[1].pc = "call" =>
    LET m == mcp[1]
    IN  IF m.tools = <<>> THEN m.toolName = DefaultTool
        ELSE /\ m.toolName \in Range(m.tools)
             /\ ScoreAsked(req[1].text, m.tools) => m.toolName = <<"g","e","t","_","s","c","o","r","e">>
             /\ ~ScoreAsked(req[1].text, m.tools) /\ ~EndpointMatch(m) =>
                  m.toolName = GenericChoice(m.tools)

\* what holds of tool selection: the same, the score rule too applying only
\* absent an endpoint-specific match
ToolSelectionEndpointFirst ==
  req[1].pc = "call" =>
    LET m == mcp[1]
    IN  IF m.tools = <<>> THEN m.toolName = DefaultTool
        ELSE /\ m.toolName \in Range(m.tools)
             /\ EndpointMatch(m) => m.toolName = cfbdTool(req[1].text, m.tools, DefaultTool)
             /\ ScoreAsked(req[1].text, m.tools) /\ ~EndpointMatch(m) =>
                  m.toolName = <<"g","e","t","_","s","c","o","r","e">>
             /\ ~ScoreAsked(req[1].text, m.tools) /\ ~EndpointMatch(m) =>
                  m.toolName = GenericChoice(m.tools)

\* the fallback to the first name is exercised: a tool list without a generic verb
ToolSelectionSeen ==
  /\ req[1].pc = "call" /\ mcp[1].tools = ToolsPlain /\ mcp[1].toolName = ToolsPlain[1]

\* the positions of the distractors among the options of the question asked
Distractors == {j \in 1..Len(quiz.options) : j # quiz.correctIndex + 1}

\* the answers of the bank, trimmed, other than that of the record asked,
\* whose length is at least 3 and within 18 of the correct answer's
PlausiblePool ==
  { Trim(TRIVIA[k].answer) : k \in {i \in 1..Len(TRIVIA) :
      /\ Norm(TRIVIA[i].answer) # Norm(quiz.record.answer)
      /\ Len(Trim(TRIVIA[i].answer)) >= 3
      /\ AbsDiff(Len(Trim(TRIVIA[i].answer)), Len(Trim(quiz.record.answer))) <= 18} }

\* C28: distractor selection. The distractors generated for a question are
\* pairwise distinct in normalized form, none normalizes to the correct
\* answer, and one from outside the plausible pool is used only when that
\* pool holds fewer than 3 distinct normalized answers.
DistractorChoice ==
  quiz.asked /\ ~hasWrongAnswers(bankRead(<<quiz.record>>)[1]) =>
    /\ \A i \in Distractors : \A j \in Distractors :
         i # j => Norm(quiz.options[i]) # Norm(quiz.options[j])
    /\ \A i \in Distractors : Norm(quiz.options[i]) # Norm(quiz.record.answer)
    /\ (\E i \in Distractors : quiz.options[i] \notin PlausiblePool)
         => Cardinality({Norm(a) : a \in PlausiblePool}) < 3

\* C28: three distractors were generated from a plausible pool of three,
\* an implausible answer of the bank being left out
DistractorChoiceSeen ==
  /\ quiz.asked /\ TRIVIA = BankFive /\ Cardinality(Distractors) = 3
  /\ Cardinality(PlausiblePool) = 3
  /\ \E k \in 1..Len(TRIVIA) :
       /\ Norm(TRIVIA[k].answer) # Norm(quiz.record.answer)
       /\ Trim(TRIVIA[k].answer) \notin PlausiblePool

\* the other cases of C28: an implausible distractor completes a short
\* plausible pool; an answer the pools hold twice is used once
DistractorFallbackSeen ==
  /\ quiz.asked /\ TRIVIA = BankFour
  /\ \E i \in Distractors : quiz.options[i] \notin PlausiblePool

DistractorOnceSeen ==
  /\ quiz.asked /\ TRIVIA = BankTwice /\ Cardinality(Distractors) = 2
  /\ Cardinality(PlausiblePool) = 3

\* C29: system prompt presence. Every model call, the first of a request and
\* each follow-up, carries the system prompt as its first message, followed
\* by the history of the session.
SystemFirst ==
  \A r \in ReqIds :
    req[r].pc = "llm" =>
      /\ messages(r) # <<>> /\ messages(r)[1] = SystemTurn
      /\ Tail(messages(r)) = sessions[req[r].sid].chat

\* what holds of the model calls: the first call of a request carries the
\* system prompt first, and no follow-up call carries it at all
SystemFirstOnce ==
  \A r \in ReqIds :
    req[r].pc = "llm" =>
      /\ ~llm[r].followUp => messages(r)[1] = SystemTurn /\ Tail(messages(r)) = sessions[req[r].sid].chat
      /\ llm[r].followUp => \A i \in 1..Len(messages(r)) : messages(r)[i].role # "system"

\* a follow-up call is in flight
FollowUpSeen == req[1].pc = "llm" /\ llm[1].followUp

\* the assistant turn a tool turn at position i answers: the turn before the
\* run of tool turns that holds it, or 0 when the run starts the list
Requester(msgs, i) ==
  LET before == {k \in 1..(i - 1) : msgs[k].role # "tool"}
  IN  IF before = {} THEN 0 ELSE CHOOSE k \in before : \A l \in before : l <= k

\* every tool turn answers a call of the assistant turn before its run, and
\* every assistant turn with calls is followed by a tool turn for each call
Paired(msgs) ==
  /\ \A i \in 1..Len(msgs) :
       msgs[i].role = "tool" =>
         LET a == Requester(msgs, i)
         IN  /\ a > 0 /\ msgs[a].role = "assistant"
             /\ i - a <= Len(msgs[a].calls)
             /\ msgs[a].calls[i - a] = msgs[i].name
  /\ \A i \in 1..Len(msgs) :
       msgs[i].role = "assistant" /\ msgs[i].calls # <<>> =>
         /\ i + Len(msgs[i].calls) <= Len(msgs)
         /\ \A j \in 1..Len(msgs[i].calls) :
              msgs[i + j].role = "tool" /\ msgs[i + j].name = msgs[i].calls[j]

\* C30: well-formed history. In every message list sent to the model each
\* tool turn is preceded by the assistant turn that requested its call and
\* each assistant turn with calls is followed by a tool turn for every call,
\* also after the history was trimmed and after a request that ended in the
\* error reply.
WellFormedHistory ==
  \A r \in ReqIds : req[r].pc = "llm" => Paired(messages(r))

\* what holds of the message lists: those of a request whose session never
\* saw the error reply and holds no more turns than the trim keeps
WellFormedFirst ==
  req[1].pc = "llm" /\ arrivals = 1 /\ Len(sessions[req[1].sid].chat) <= HistoryLimit
    => Paired(messages(1))

\* C31: no undelivered pending question. When a request ends in the generic
\* error reply, the pending question of its session (active, correctIndex,
\* explanation) is what it was before the request; stated for the first
\* request of a run, before which no session holds a question.
NoUndelivered ==
  req[1].pc = "done" /\ req[1].reply.kind = "error" /\ arrivals = 1 =>
    Pending(sessions[lastReq.sid]) = Pending(NewSession)

\* what holds of the error reply: the pending question is left alone when no
\* get_trivia_question call of the request returned a question before the error
NoUndeliveredUnasked ==
  req[1].pc = "done" /\ req[1].reply.kind = "error" /\ arrivals = 1
    /\ hist[lastReq.sid] = "none" =>
      Pending(sessions[lastReq.sid]) = Pending(NewSession)

\* a request ended in the error reply before any question was drawn
NoUndeliveredUnaskedSeen ==
  /\ req[1].pc = "done" /\ req[1].reply.kind = "error" /\ arrivals = 1
  /\ hist[lastReq.sid] = "none" /\ sessions[lastReq.sid].chat # <<>>

\* request r sends the reply the model phrased, in this step
Sending(r) ==
  /\ req[r].pc = "llm" /\ req'[r].pc = "done"
  /\ req'[r].reply.kind \in {"llm", "llm_null"}

\* C32: same-session trivia race. When two concurrent requests of one session
\* each obtained a trivia question, the question the session holds once both
\* replies are sent is the one of the request that replied last.
LastShown ==
  [][ \A r \in ReqIds : \A o \in ReqIds \ {r} :
        ( /\ Sending(r) /\ llm[r].shown >= 0
          /\ req[o].pc = "done" /\ req[o].reply.kind \in {"llm", "llm_null"}
          /\ llm[o].shown >= 0 /\ owner[o] = owner[r]
          /\ sessions'[owner[r]].active )
          => sessions'[owner[r]].correctIndex = llm[r].shown ]_vars

\* what holds of the race: the session holds the question drawn last, by
\* either of the two requests
LastDrawn ==
  \A r \in ReqIds : \A o \in ReqIds \ {r} :
    ( /\ llm[r].shown >= 0 /\ llm[o].shown >= 0 /\ owner[o] = owner[r]
      /\ sessions[owner[r]].active )
      => sessions[owner[r]].correctIndex \in {llm[r].shown, llm[o].shown}

\* both requests of a session drew a question and both replies are sent
LastDrawnSeen ==
  /\ req[1].pc = "done" /\ req[2].pc = "done" /\ owner[1] = owner[2]
  /\ llm[1].shown >= 0 /\ llm[2].shown >= 0 /\ llm[1].shown # llm[2].shown
  /\ sessions[owner[1]].active

\* C33: failed discovery is not cached. A tool list enters the cache of an
\* endpoint only after a successful discovery: a tools/list call that fails
\* (timeout, non-2xx, a body without tools) resolves to no tools and leaves
\* the cache of its endpoint as it is, so that the next request runs
\* discovery again.
FailedNotCached ==
  [][ \A e \in Endpoints :
        toolCache'[e] # toolCache[e] => toolCache'[e].tools # <<>> ]_vars

\* what holds of the cache: every discovery that ends is cached, the failed
\* one as an empty list (and by CacheHit a cached endpoint is not discovered
\* again)
FailedCached ==
  [][ \A e \in Endpoints :
        ( /\ mode = "cached" /\ req[1].pc = "list" /\ req'[1].pc # "list"
          /\ mcp[1].base = e )
          => toolCache'[e] = [present |-> TRUE, tools |-> mcp'[1].tools] ]_vars

\* a failed discovery is in the cache and a later request skipped discovery
FailedCachedSeen ==
  /\ \E e \in Endpoints : toolCache[e].present /\ toolCache[e].tools = <<>> /\ mcp[1].base = e
  /\ req[1].pc = "call" /\ arrivals >= 2

====
